---- MODULE Spec2Model ----
(***************************************************************************)
(* Model of the GitHub Actions of swisstxt/ast-gh-actions:                  *)
(*   - the retry controllers retryWithGitHubRateLimit (upstream-tag-sync,   *)
(*     current source) and retryWithBackoff (earlier upstream-tag-sync      *)
(*     source and upstream-tag-on-merge),                                   *)
(*   - the tag resolver getLatestTag (semver filtering and ordering),       *)
(*   - the sync workflow run() with the remote repository as shared state.  *)
(*                                                                          *)
(* Strings whose content the code inspects (tag names, labels, branch       *)
(* names) are sequences of one-character strings, so that parsing,          *)
(* prefixing and comparison are computed and not assumed.                   *)
(***************************************************************************)
EXTENDS Integers, Sequences, FiniteSets, TLC

(***************************************************************************)
(* Characters and strings                                                   *)
(***************************************************************************)

\* The characters in ASCII order (the order of JavaScript's string "<").
AsciiOrder ==
  << " ", "+", "-", ".", "/",
     "0", "1", "2", "3", "4", "5", "6", "7", "8", "9", "=",
     "A", "B", "C", "D", "E", "F", "G", "H", "I", "J", "K", "L", "M",
     "N", "O", "P", "Q", "R", "S", "T", "U", "V", "W", "X", "Y", "Z",
     "a", "b", "c", "d", "e", "f", "g", "h", "i", "j", "k", "l", "m",
     "n", "o", "p", "q", "r", "s", "t", "u", "v", "w", "x", "y", "z" >>

CharCode(c) == CHOOSE i \in 1..Len(AsciiOrder) : AsciiOrder[i] = c

DigitChars == {"0", "1", "2", "3", "4", "5", "6", "7", "8", "9"}

IsDigit(c) == c \in DigitChars

IsLetter(c) == CharCode(c) >= CharCode("A")

DigitValue(c) == CharCode(c) - CharCode("0")

DigitChar(n) == AsciiOrder[CharCode("0") + n]

\* JavaScript's a < b on strings: lexicographic by code unit.
RECURSIVE StrLess(_, _)
StrLess(a, b) ==
  IF Len(b) = 0 THEN FALSE
  ELSE IF Len(a) = 0 THEN TRUE
  ELSE IF a[1] = b[1] THEN StrLess(Tail(a), Tail(b))
  ELSE CharCode(a[1]) < CharCode(b[1])

\* Number(s) / +s for a string of decimal digits.
RECURSIVE StrToNat(_)
StrToNat(s) ==
  IF Len(s) = 0 THEN 0
  ELSE 10 * StrToNat(SubSeq(s, 1, Len(s) - 1)) + DigitValue(s[Len(s)])

\* n.toString() for a natural number.
RECURSIVE NatToStr(_)
NatToStr(n) ==
  IF n < 10 THEN << DigitChar(n) >>
  ELSE NatToStr(n \div 10) \o << DigitChar(n % 10) >>

\* First index of character c in s, 0 when absent.
IndexOf(s, c) ==
  IF \E i \in 1..Len(s) : s[i] = c
  THEN CHOOSE i \in 1..Len(s) : s[i] = c /\ \A j \in 1..(i - 1) : s[j] # c
  ELSE 0

\* s.split(sep) for a one-character separator.
RECURSIVE Split(_, _)
Split(s, sep) ==
  LET i == IndexOf(s, sep)
  IN IF i = 0 THEN << s >>
     ELSE << SubSeq(s, 1, i - 1) >> \o Split(SubSeq(s, i + 1, Len(s)), sep)

\* parts.join(sep)
RECURSIVE Join(_, _)
Join(parts, sep) ==
  IF Len(parts) = 0 THEN << >>
  ELSE IF Len(parts) = 1 THEN parts[1]
  ELSE parts[1] \o << sep >> \o Join(Tail(parts), sep)

\* s.trim()
RECURSIVE Trim(_)
Trim(s) ==
  IF Len(s) = 0 THEN s
  ELSE IF s[1] = " " THEN Trim(Tail(s))
  ELSE IF s[Len(s)] = " " THEN Trim(SubSeq(s, 1, Len(s) - 1))
  ELSE s

\* The elements of a sequence.
Range(q) == { q[i] : i \in 1..Len(q) }

\* s.startsWith(prefix)
StartsWith(s, prefix) ==
  Len(s) >= Len(prefix) /\ SubSeq(s, 1, Len(prefix)) = prefix

\* The value null / undefined where a string is expected.
Null == << "null" >>

(***************************************************************************)
(* The semver library as used by getLatestTag: clean, valid, rcompare       *)
(***************************************************************************)

\* s.replace(/^[=v]+/, '')
RECURSIVE StripEqV(_)
StripEqV(s) ==
  IF Len(s) > 0 /\ s[1] \in {"=", "v"} THEN StripEqV(Tail(s)) ELSE s

\* NUMERICIDENTIFIER: 0|[1-9]\d*
NumericIdentifier(s) ==
  /\ Len(s) > 0
  /\ \A i \in 1..Len(s) : IsDigit(s[i])
  /\ (Len(s) = 1 \/ s[1] # "0")

\* BUILDIDENTIFIER: [a-zA-Z0-9-]+
BuildIdentifier(s) ==
  /\ Len(s) > 0
  /\ \A i \in 1..Len(s) : IsDigit(s[i]) \/ IsLetter(s[i]) \/ s[i] = "-"

\* PRERELEASEIDENTIFIER: NUMERICIDENTIFIER | \d*[a-zA-Z-][a-zA-Z0-9-]*
PrereleaseIdentifier(s) ==
  /\ BuildIdentifier(s)
  /\ (\E i \in 1..Len(s) : ~IsDigit(s[i])) \/ NumericIdentifier(s)

NoVersion == [ok |-> FALSE, major |-> 0, minor |-> 0, patch |-> 0, prerelease |-> << >>]

\* MAINVERSION: three numeric identifiers
MainVersion(nums) == Len(nums) = 3 /\ \A i \in 1..Len(nums) : NumericIdentifier(nums[i])

\* PRERELEASE: dot-separated prerelease identifiers
Prerelease(ids) == \A i \in 1..Len(ids) : PrereleaseIdentifier(ids[i])

\* BUILD: dot-separated build identifiers
Build(parts) == \A i \in 1..Len(parts) : BuildIdentifier(parts[i])

\* The fields of the SemVer object once the expression matched.
SemVerFields(nums, ids, matched) ==
  IF matched
  THEN [ok |-> TRUE,
        major |-> StrToNat(nums[1]), minor |-> StrToNat(nums[2]), patch |-> StrToNat(nums[3]),
        prerelease |-> ids]
  ELSE NoVersion

\* MAJOR.MINOR.PATCH and the prerelease identifiers, split at the dots.
SemVerMatch(nums, ids, buildOK) ==
  SemVerFields(nums, ids, MainVersion(nums) /\ Prerelease(ids) /\ buildOK)

\* core is the text between the optional v and the build; dash is the index of
\* its first "-" (0: no prerelease part).
SemVerCore(core, dash, buildOK) ==
  SemVerMatch(Split(IF dash = 0 THEN core ELSE SubSeq(core, 1, dash - 1), "."),
              IF dash = 0 THEN << >> ELSE Split(SubSeq(core, dash + 1, Len(core)), "."),
              buildOK)

\* The optional leading v of the FULL expression.
SemVerNoBuild(noBuild, buildOK) ==
  IF Len(noBuild) > 0 /\ noBuild[1] = "v"
  THEN SemVerCore(Tail(noBuild), IndexOf(Tail(noBuild), "-"), buildOK)
  ELSE SemVerCore(noBuild, IndexOf(noBuild, "-"), buildOK)

\* t is the trimmed string, plus the index of its first "+" (0: no build part).
SemVerTrimmed(t, plus) ==
  IF plus = 0
  THEN SemVerNoBuild(t, TRUE)
  ELSE SemVerNoBuild(SubSeq(t, 1, plus - 1), Build(Split(SubSeq(t, plus + 1, Len(t)), ".")))

\* The same, for a trimmed string.
SemVerOfTrimmed(t) == SemVerTrimmed(t, IndexOf(t, "+"))

\* new SemVer(version) in strict mode: match ^v?MAJOR.MINOR.PATCH(-PRE)?(+BUILD)?$
\* of the trimmed string; the build metadata is not part of the version.
SemVerParse(version) == SemVerOfTrimmed(Trim(version))

\* SemVer.format(): the .version string
SemVerFormat(v) ==
  NatToStr(v.major) \o << "." >> \o NatToStr(v.minor) \o << "." >> \o NatToStr(v.patch)
    \o (IF Len(v.prerelease) = 0 THEN << >> ELSE << "-" >> \o Join(v.prerelease, "."))

\* semver.clean(version)
\* parse(version)?.version: the formatted version, or null
VersionOrNull(s) == IF s.ok THEN SemVerFormat(s) ELSE Null

\* semver.clean(version)
SemverClean(version) == VersionOrNull(SemVerParse(StripEqV(Trim(version))))

\* semver.valid(version); version may be null
SemverValid(version) ==
  IF version = Null THEN Null ELSE VersionOrNull(SemVerParse(version))

\* compareIdentifiers(a, b) of semver/internal/identifiers
CompareIdentifiers(a, b) ==
  LET anum == Len(a) > 0 /\ \A i \in 1..Len(a) : IsDigit(a[i])
      bnum == Len(b) > 0 /\ \A i \in 1..Len(b) : IsDigit(b[i])
  IN IF anum /\ bnum
     THEN (IF StrToNat(a) = StrToNat(b) THEN 0 ELSE IF StrToNat(a) < StrToNat(b) THEN -1 ELSE 1)
     ELSE IF a = b THEN 0
     ELSE IF anum /\ ~bnum THEN -1
     ELSE IF bnum /\ ~anum THEN 1
     ELSE IF StrLess(a, b) THEN -1 ELSE 1

\* The do/while loop of SemVer.comparePre over the identifier lists.
RECURSIVE ComparePreFrom(_, _, _)
ComparePreFrom(p, q, i) ==
  IF i > Len(p) /\ i > Len(q) THEN 0
  ELSE IF i > Len(q) THEN 1
  ELSE IF i > Len(p) THEN -1
  ELSE IF p[i] = q[i] THEN ComparePreFrom(p, q, i + 1)
  ELSE CompareIdentifiers(p[i], q[i])

\* SemVer.compareMain
\* (variant: the patch numbers are compared as strings)
CompareMainLexicalPatch(x, y) ==
  IF x.major # y.major THEN (IF x.major < y.major THEN -1 ELSE 1)
  ELSE IF x.minor # y.minor THEN (IF x.minor < y.minor THEN -1 ELSE 1)
  ELSE IF x.patch # y.patch THEN (IF StrLess(NatToStr(x.patch), NatToStr(y.patch)) THEN -1 ELSE 1)
  ELSE 0

CompareMain(x, y) ==
  IF x.major # y.major THEN (IF x.major < y.major THEN -1 ELSE 1)
  ELSE IF x.minor # y.minor THEN (IF x.minor < y.minor THEN -1 ELSE 1)
  ELSE IF x.patch # y.patch THEN (IF x.patch < y.patch THEN -1 ELSE 1)
  ELSE 0

\* SemVer.comparePre
ComparePre(x, y) ==
  IF Len(x.prerelease) > 0 /\ Len(y.prerelease) = 0 THEN -1
  ELSE IF Len(x.prerelease) = 0 /\ Len(y.prerelease) > 0 THEN 1
  ELSE IF Len(x.prerelease) = 0 /\ Len(y.prerelease) = 0 THEN 0
  ELSE ComparePreFrom(x.prerelease, y.prerelease, 1)

\* SemVer.compare(other): compareMain(other) || comparePre(other)
CompareVersions(x, y) == IF CompareMain(x, y) # 0 THEN CompareMain(x, y) ELSE ComparePre(x, y)

\* semver.compare(a, b) on version strings
SemverCompare(a, b) == CompareVersions(SemVerParse(a), SemVerParse(b))

\* A variant that orders ascending: compare(a, b) in place of compare(b, a).
SemverRCompareAscending(a, b) == SemverCompare(a, b)

\* semver.rcompare(a, b)
SemverRCompare(a, b) == SemverCompare(b, a)

(***************************************************************************)
(* Tag names used as inputs                                                 *)
(***************************************************************************)

Tag_v1_0_0    == << "v", "1", ".", "0", ".", "0" >>
Tag_v1_1_0    == << "v", "1", ".", "1", ".", "0" >>
Tag_v1_2_3    == << "v", "1", ".", "2", ".", "3" >>
Tag_1_2_3     == << "1", ".", "2", ".", "3" >>
Tag_v1_2_10   == << "v", "1", ".", "2", ".", "1", "0" >>
Tag_2_0_0     == << "2", ".", "0", ".", "0" >>
Tag_2_0_0_rc1 == << "2", ".", "0", ".", "0", "-", "r", "c", ".", "1" >>
Tag_2_0_0_1   == << "2", ".", "0", ".", "0", "-", "1" >>
Tag_not_a_tag == << "n", "o", "t", "-", "a", "-", "t", "a", "g" >>
Tag_v1_2      == << "v", "1", ".", "2" >>
Tag_v01_2_3   == << "v", "0", "1", ".", "2", ".", "3" >>
Tag_1_2_3_b7  == << "1", ".", "2", ".", "3", "+", "b", "7" >>

\* Names offered to the tag resolver: releases, pre-releases, equal versions
\* under different names, and names that are not semver.
TagPool ==
  { Tag_v1_0_0, Tag_v1_1_0, Tag_v1_2_3, Tag_1_2_3, Tag_v1_2_10, Tag_2_0_0,
    Tag_2_0_0_rc1, Tag_2_0_0_1, Tag_not_a_tag, Tag_v1_2, Tag_v01_2_3, Tag_1_2_3_b7 }

\* Longest tag list given to the resolver when checked as a function.
MaxTags == 3

\* Sequences of pairwise distinct elements of S of length at most n.
DistinctSeqs(S, n) ==
  UNION { { q \in [1..k -> S] : \A i, j \in 1..k : i # j => q[i] # q[j] } : k \in 0..n }

(***************************************************************************)
(* getLatestTag: filtering and ordering of the accumulated tags             *)
(***************************************************************************)

\* .map(tag => ({ name: tag.name, version: semver.valid(semver.clean(tag.name)) }))
MapVersion(tags) ==
  [ i \in 1..Len(tags) |-> [name |-> tags[i], version |-> SemverValid(SemverClean(tags[i]))] ]

\* .filter(tag => tag.version !== null)
FilterValid(entries) == SelectSeq(entries, LAMBDA e : e.version # Null)

\* Array.prototype.sort with comparator rcompare on .version; the sort is stable.
RECURSIVE InsertSorted(_, _)
InsertSorted(sorted, e) ==
  IF Len(sorted) = 0 THEN << e >>
  ELSE IF SemverRCompare(sorted[1].version, e.version) <= 0
       THEN << sorted[1] >> \o InsertSorted(Tail(sorted), e)
       ELSE << e >> \o sorted

RECURSIVE SortRCompare(_)
SortRCompare(entries) ==
  IF Len(entries) = 0 THEN << >>
  ELSE InsertSorted(SortRCompare(SubSeq(entries, 1, Len(entries) - 1)), entries[Len(entries)])

\* The part of getLatestTag after pagination: null, or the name of validTags[0].
LatestOf(tags) ==
  IF Len(tags) = 0 THEN Null
  ELSE LET validTags == SortRCompare(FilterValid(MapVersion(tags)))
       IN IF Len(validTags) = 0 THEN Null ELSE validTags[1].name

(***************************************************************************)
(* Errors raised by the wrapped operation                                   *)
(***************************************************************************)

\* A header that the response does not carry (headers[...] is undefined).
Absent == -1

\* Date.now() when the error is caught, in ms: the rate-limit reset times of
\* the errors below lie 30 s ahead of, or 5 s behind, the first of these.
NowChoices == {100000, 100250}

\* An error as the catch blocks see it: whether it is an Error object, whether
\* it has .response, the HTTP status, whether .message includes "rate limit",
\* and the rate-limit headers (numbers as sent, x-ratelimit-reset in seconds).
MkError(isError, hasResponse, status, rateMsg, remaining, reset, retryAfter, resource, limit, used) ==
  [isError |-> isError, hasResponse |-> hasResponse, status |-> status, rateMsg |-> rateMsg,
   remaining |-> remaining, reset |-> reset, retryAfter |-> retryAfter,
   resource |-> resource, limit |-> limit, used |-> used]

NoError == MkError(FALSE, FALSE, 0, FALSE, Absent, Absent, Absent, "undefined", Absent, Absent)

\* Primary rate limit: 403, "API rate limit exceeded", remaining 0, reset now+30s.
ErrPrimary == MkError(TRUE, TRUE, 403, TRUE, 0, 130, Absent, "core", 5000, 5000)
\* Primary rate limit whose reset time already lies in the past.
ErrPrimaryPast == MkError(TRUE, TRUE, 403, TRUE, 0, 95, Absent, "core", 5000, 5000)
\* Secondary rate limit with retry-after, remaining positive.
ErrSecondaryRetryAfter == MkError(TRUE, TRUE, 429, TRUE, 12, 130, 7, "core", 5000, 4988)
\* Secondary rate limit with retry-after, remaining not reported but reset given.
ErrRetryAfterNoRemaining == MkError(TRUE, TRUE, 429, TRUE, Absent, 130, 7, "undefined", Absent, Absent)
\* Secondary rate limit with a reset time only: no remaining count, no retry-after.
ErrResetNoRemaining == MkError(TRUE, TRUE, 403, TRUE, Absent, 130, Absent, "undefined", Absent, Absent)
\* Secondary rate limit without any rate-limit header.
ErrSecondary == MkError(TRUE, TRUE, 403, TRUE, Absent, Absent, Absent, "undefined", Absent, Absent)
\* 403 "Resource not accessible by integration": an authorization failure.
ErrForbidden == MkError(TRUE, TRUE, 403, FALSE, 4990, 130, Absent, "core", 5000, 10)
\* 401 "Bad credentials".
ErrUnauthorized == MkError(TRUE, TRUE, 401, FALSE, Absent, Absent, Absent, "undefined", Absent, Absent)
\* 404 "Not Found".
ErrNotFound == MkError(TRUE, TRUE, 404, FALSE, 4990, 130, Absent, "core", 5000, 10)
\* 422 "Validation Failed".
ErrValidation == MkError(TRUE, TRUE, 422, FALSE, 4990, 130, Absent, "core", 5000, 10)
\* 429 whose message does not contain "rate limit".
ErrTooManyNoMsg == MkError(TRUE, TRUE, 429, FALSE, Absent, Absent, 7, "undefined", Absent, Absent)
\* An Error without .response whose message contains "rate limit".
ErrMsgOnly == MkError(TRUE, FALSE, 0, TRUE, Absent, Absent, Absent, "undefined", Absent, Absent)
\* A thrown value that is not an Error (a string mentioning "rate limit").
ErrNotAnError == MkError(FALSE, FALSE, 0, TRUE, Absent, Absent, Absent, "undefined", Absent, Absent)

Errors ==
  { ErrPrimary, ErrPrimaryPast, ErrSecondaryRetryAfter, ErrRetryAfterNoRemaining,
    ErrResetNoRemaining, ErrSecondary,
    ErrForbidden, ErrUnauthorized, ErrNotFound, ErrValidation, ErrTooManyNoMsg, ErrMsgOnly,
    ErrNotAnError }

\* Math.random() * 1000, in [0, 1000)
JitterChoices == {0, 999}

(***************************************************************************)
(* The retry controllers                                                    *)
(***************************************************************************)

\* The two controllers of the repository.
GitHubRateLimit == "retryWithGitHubRateLimit"
Backoff == "retryWithBackoff"
Variants == {GitHubRateLimit, Backoff}

MaxFirst(a, b) == a

\* Math.max
Max(a, b) == IF a >= b THEN a ELSE b

\* What the controller throws: the caught error itself, the new Error
\* "GitHub API rate limit exceeded after N attempts. Resource: .., Limit: .., Used: ..",
\* or the Error after the loop.
Rethrow(err) ==
  [type |-> "original", orig |-> err, attempts |-> 0, resource |-> "undefined", limit |-> Absent, used |-> Absent]

RateLimitExceeded(maxA, err) ==
  [type |-> "RateLimitExceeded", orig |-> NoError, attempts |-> maxA,
   resource |-> err.resource, limit |-> err.limit, used |-> err.used]

ShouldNotReach ==
  [type |-> "ShouldNotReach", orig |-> NoError, attempts |-> 0, resource |-> "undefined", limit |-> Absent, used |-> Absent]

NothingThrown ==
  [type |-> "none", orig |-> NoError, attempts |-> 0, resource |-> "undefined", limit |-> Absent, used |-> Absent]

\* (variant: every error with a response is retried, the status is not tested)
RetryableGitHubAnyStatus(err) == err.hasResponse

\* retryWithGitHubRateLimit: !(!error.response || ![403, 429].includes(error.response.status))

RetryableGitHub(err) == err.hasResponse /\ err.status \in {403, 429}

\* (variant: the status is accepted as well)
RetryableBackoffOrStatus(err) == (err.isError /\ err.rateMsg) \/ (err.hasResponse /\ err.status \in {403, 429})

\* retryWithBackoff: err instanceof Error && err.message.includes("rate limit")

RetryableBackoff(err) == err.isError /\ err.rateMsg

\* (variant: the reset time is not converted to milliseconds)
DelayGitHubResetInSeconds(err, att, base, now) ==
  LET remainingRequests == IF err.remaining = Absent THEN 0 ELSE err.remaining
      rateLimitReset    == IF err.reset = Absent THEN 0 ELSE err.reset
  IN IF remainingRequests = 0 /\ rateLimitReset # 0 THEN rateLimitReset - now
     ELSE IF err.retryAfter # Absent THEN err.retryAfter * 1000
     ELSE Max(60000, base * 2^(att - 1))

\* retryWithGitHubRateLimit: the delay before jitter (primary limit, Retry-After, or backoff)
DelayGitHub(err, att, base, now) ==
  LET remainingRequests == IF err.remaining = Absent THEN 0 ELSE err.remaining
      rateLimitReset    == (IF err.reset = Absent THEN 0 ELSE err.reset) * 1000
  IN IF remainingRequests = 0 /\ rateLimitReset # 0 THEN rateLimitReset - now
     ELSE IF err.retryAfter # Absent THEN err.retryAfter * 1000
     ELSE Max(60000, base * 2^(att - 1))

\* retryWithBackoff: baseDelay * Math.pow(2, attempt - 1)
DelayBackoff(att, base) == base * 2^(att - 1)

\* The catch block of one attempt: what is thrown, or how long is slept.
\* (variant: always rethrows the caught error)
CatchGitHubRethrow(err, att, maxA, base, now, jitter) ==
  IF ~RetryableGitHub(err) THEN [act |-> "throw", thrown |-> Rethrow(err), delay |-> 0]
  ELSE IF att >= maxA THEN [act |-> "throw", thrown |-> Rethrow(err), delay |-> 0]
  ELSE [act |-> "sleep", thrown |-> NothingThrown,
        delay |-> Max(DelayGitHub(err, att, base, now), 0) + jitter]

CatchGitHub(err, att, maxA, base, now, jitter) ==
  IF ~RetryableGitHub(err) THEN [act |-> "throw", thrown |-> Rethrow(err), delay |-> 0]
  ELSE IF att >= maxA THEN [act |-> "throw", thrown |-> RateLimitExceeded(maxA, err), delay |-> 0]
  ELSE [act |-> "sleep", thrown |-> NothingThrown,
        delay |-> Max(DelayGitHub(err, att, base, now), 0) + jitter]

\* (variant: the attempt cap is tested with > instead of >=)
CatchBackoffOffByOne(err, att, maxA, base, jitter) ==
  IF ~RetryableBackoff(err) \/ att > maxA
  THEN [act |-> "throw", thrown |-> Rethrow(err), delay |-> 0]
  ELSE [act |-> "sleep", thrown |-> NothingThrown, delay |-> DelayBackoff(att, base) + jitter]

CatchBackoff(err, att, maxA, base, jitter) ==
  IF ~RetryableBackoff(err) \/ att >= maxA
  THEN [act |-> "throw", thrown |-> Rethrow(err), delay |-> 0]
  ELSE [act |-> "sleep", thrown |-> NothingThrown, delay |-> DelayBackoff(att, base) + jitter]

Catch(v, err, att, maxA, base, now, jitter) ==
  IF v = GitHubRateLimit THEN CatchGitHub(err, att, maxA, base, now, jitter)
  ELSE CatchBackoff(err, att, maxA, base, jitter)

(***************************************************************************)
(* State                                                                    *)
(***************************************************************************)

VARIABLES
  \* one call of a retry controller around an arbitrary operation
  variant,      \* which controller is called
  maxAttempts,  \* parameter maxAttempts
  baseDelay,    \* parameter baseDelay
  attempt,      \* the loop variable
  ctl,          \* "off", "loop" (at the loop test), "sleeping", "returned", "threw"
  calls,        \* invocations of operation() so far
  sleeps,       \* setTimeout sleeps started so far
  hist,         \* outcome of each invocation, in order
  out,          \* what the call returned or threw
  slept,        \* the most recent sleep: error, attempt, now, jitter, delay
  \* the tag resolver applied to a list of tag names
  tagNames,     \* the accumulated tags
  resolved,     \* result of getLatestTag
  tagsDone,     \* whether the result has been computed
  \* invocations of the sync action against one upstream and one target repository
  upstream,     \* the upstream tag listing, as the pages the API serves
  items,        \* issues and pull requests of the target repository, newest first
  branches,     \* branch names of the target repository
  inv,          \* per invocation: position in run(), locals, and what it has done
  labeledTags,  \* tags for which some invocation has ended with the labelled pull request
  \* the git database of the repository the tag-on-merge action runs in
  tagObjects,   \* annotated tag objects created through git.createTag
  tagRefs       \* references refs/tags/<name>, each with the sha it points at

retryVars == << maxAttempts, baseDelay, attempt, ctl, calls, sleeps, hist, out, slept >>
tagVars == << tagNames, resolved, tagsDone >>
syncVars == << upstream, items, branches, inv, labeledTags >>
tomVars == << tagObjects, tagRefs >>
syncVarsButInv == << upstream, items, branches, labeledTags >>
vars == << variant, retryVars, tagVars, syncVars, tomVars >>

(***************************************************************************)
(* One call of a retry controller                                           *)
(***************************************************************************)

\* maxAttempts = 5, baseDelay = 1000: the defaults, used by every call in run().
DefaultMaxAttempts == 5
DefaultBaseDelay == 1000

\* Largest maxAttempts a controller is called with.
MaxMaxAttempts == 3

\* baseDelay values passed: the default, and one whose doubling exceeds 60 s.
BaseDelays == {1000, 40000}

\* Values the operation can return.
Results == {"r1", "r2"}

Success(r) == [ok |-> TRUE, value |-> r, err |-> NoError]
Failure(e) == [ok |-> FALSE, value |-> "none", err |-> e]
Outcomes == { Success(r) : r \in Results } \cup { Failure(e) : e \in Errors }

Pending == [kind |-> "pending", value |-> "none", thrown |-> NothingThrown]
NoSleep == [err |-> NoError, attempt |-> 0, now |-> 0, jitter |-> 0, delay |-> 0]

RetryOff ==
  /\ maxAttempts = DefaultMaxAttempts /\ baseDelay = DefaultBaseDelay
  /\ attempt = 1 /\ ctl = "off" /\ calls = 0 /\ sleeps = 0
  /\ hist = << >> /\ out = Pending /\ slept = NoSleep

TomOff == tagObjects = {} /\ tagRefs = {}

TagsOff == tagNames = << >> /\ resolved = Null /\ tagsDone = TRUE

SyncOff ==
  /\ upstream = << >> /\ items = << >> /\ branches = {}
  /\ inv = << >> /\ labeledTags = {}

\* Entry of retryWithGitHubRateLimit / retryWithBackoff: for (let attempt = 1; ...
RetryInit ==
  /\ variant \in Variants
  /\ maxAttempts \in 0..MaxMaxAttempts
  /\ baseDelay \in BaseDelays
  /\ attempt = 1 /\ ctl = "loop" /\ calls = 0 /\ sleeps = 0
  /\ hist = << >> /\ out = Pending /\ slept = NoSleep
  /\ TagsOff /\ SyncOff /\ TomOff

\* (variant: the operation is invoked a second time to obtain the value returned)
RetryAttemptTwice ==
  /\ ctl = "loop" /\ attempt <= maxAttempts
  /\ \E o \in Outcomes, now \in NowChoices, jitter \in JitterChoices :
       /\ hist' = Append(hist, o)
       /\ calls' = IF o.ok THEN calls + 2 ELSE calls + 1
       /\ LET c == Catch(variant, o.err, attempt, maxAttempts, baseDelay, now, jitter)
          IN IF o.ok
             THEN /\ ctl' = "returned"
                  /\ out' = [kind |-> "returned", value |-> o.value, thrown |-> NothingThrown]
                  /\ UNCHANGED << sleeps, slept >>
             ELSE IF c.act = "throw"
             THEN /\ ctl' = "threw"
                  /\ out' = [kind |-> "threw", value |-> "none", thrown |-> c.thrown]
                  /\ UNCHANGED << sleeps, slept >>
             ELSE /\ ctl' = "sleeping"
                  /\ sleeps' = sleeps + 1
                  /\ slept' = [err |-> o.err, attempt |-> attempt, now |-> now,
                               jitter |-> jitter, delay |-> c.delay]
                  /\ UNCHANGED out
  /\ UNCHANGED << variant, maxAttempts, baseDelay, attempt, tagVars, syncVars, tomVars >>

\* One pass through the loop body: try { return await operation() } catch { ... }
\* up to the return, the throw, or the start of the sleep.
RetryAttempt ==
  /\ ctl = "loop" /\ attempt <= maxAttempts
  /\ \E o \in Outcomes, now \in NowChoices, jitter \in JitterChoices :
       /\ hist' = Append(hist, o)
       /\ calls' = calls + 1
       /\ LET c == Catch(variant, o.err, attempt, maxAttempts, baseDelay, now, jitter)
          IN IF o.ok
             THEN /\ ctl' = "returned"
                  /\ out' = [kind |-> "returned", value |-> o.value, thrown |-> NothingThrown]
                  /\ UNCHANGED << sleeps, slept >>
             ELSE IF c.act = "throw"
             THEN /\ ctl' = "threw"
                  /\ out' = [kind |-> "threw", value |-> "none", thrown |-> c.thrown]
                  /\ UNCHANGED << sleeps, slept >>
             ELSE /\ ctl' = "sleeping"
                  /\ sleeps' = sleeps + 1
                  /\ slept' = [err |-> o.err, attempt |-> attempt, now |-> now,
                               jitter |-> jitter, delay |-> c.delay]
                  /\ UNCHANGED out
  /\ UNCHANGED << variant, maxAttempts, baseDelay, attempt, tagVars, syncVars, tomVars >>

\* (variant: a second sleep is started before the next pass)
RetryWakeSleepsAgain ==
  /\ ctl = "sleeping"
  /\ attempt' = attempt + 1
  /\ ctl' = "loop"
  /\ sleeps' = sleeps + 1
  /\ UNCHANGED << variant, maxAttempts, baseDelay, calls, hist, out, slept, tagVars, syncVars, tomVars >>

\* The sleep ends: attempt++ and back to the loop test.
RetryWake ==
  /\ ctl = "sleeping"
  /\ attempt' = attempt + 1
  /\ ctl' = "loop"
  /\ UNCHANGED << variant, maxAttempts, baseDelay, calls, sleeps, hist, out, slept, tagVars, syncVars, tomVars >>

\* The loop test fails: throw new Error("Should not reach here due to throw in loop")
RetryFallThrough ==
  /\ ctl = "loop" /\ attempt > maxAttempts
  /\ ctl' = "threw"
  /\ out' = [kind |-> "threw", value |-> "none", thrown |-> ShouldNotReach]
  /\ UNCHANGED << variant, maxAttempts, baseDelay, attempt, calls, sleeps, hist, slept, tagVars, syncVars, tomVars >>

RetryNext == RetryAttempt \/ RetryWake \/ RetryFallThrough

SpecRetry == RetryInit /\ [][RetryNext]_vars

(***************************************************************************)
(* The tag resolver as a function of the accumulated tags                   *)
(***************************************************************************)

\* The listings of exactly the four names v1.2.3, 2.0.0-rc.1, not-a-tag, v1.2.10.
FourNameListings ==
  { q \in DistinctSeqs({ Tag_v1_2_3, Tag_2_0_0_rc1, Tag_not_a_tag, Tag_v1_2_10 }, 4) : Len(q) = 4 }

TagsInit ==
  /\ tagNames \in DistinctSeqs(TagPool, MaxTags) \cup FourNameListings
  /\ resolved = Null
  /\ tagsDone = FALSE
  /\ variant = GitHubRateLimit
  /\ RetryOff /\ SyncOff /\ TomOff

\* getLatestTag after the last page: filter, sort, pick.
ResolveLatest ==
  /\ ~tagsDone
  /\ resolved' = LatestOf(tagNames)
  /\ tagsDone' = TRUE
  /\ UNCHANGED << tagNames, variant, retryVars, syncVars, tomVars >>

TagsNext == ResolveLatest

SpecTags == TagsInit /\ [][TagsNext]_vars

(***************************************************************************)
(* The sync action: run() of upstream-tag-sync against the remote state     *)
(***************************************************************************)

\* Number of invocations of the action, one after the other.
MaxRuns == 2

\* Largest number of issues and pull requests the target repository starts with.
MaxItems == 2

\* Largest number of pages of the upstream tag listing.
MaxPages == 2

\* Largest number of remote calls of one run that the remote answers with an error.
MaxFaults == 1

Procs == 1..MaxRuns

SyncPrefix == << "s", "y", "n", "c", "/", "u", "p", "s", "t", "r", "e", "a", "m", "-" >>

\* const syncLabel = `sync/upstream-${latestTag}`
SyncLabelOf(latestTag) == SyncPrefix \o latestTag

\* const branchName = `sync/upstream-${latestTag}`
BranchNameOf(latestTag) == SyncPrefix \o latestTag

\* const prTitle = `Sync: Update to upstream ${latestTag}`
TitlePrefix ==
  << "S", "y", "n", "c", ":", " ", "U", "p", "d", "a", "t", "e", " ", "t", "o", " ",
     "u", "p", "s", "t", "r", "e", "a", "m", " " >>
PrTitleOf(latestTag) == TitlePrefix \o latestTag

\* The labels argument of createPullRequest: ['sync', syncLabel]
GenericSyncLabel == << "s", "y", "n", "c" >>
PrLabelsOfTagOnly(latestTag) == { SyncLabelOf(latestTag) }
PrLabelsOf(latestTag) == { GenericSyncLabel, SyncLabelOf(latestTag) }

\* The git commands of run(), in order; the last one pushes the branch.
GitCommands ==
  << "config user.name", "config user.email", "remote add upstream", "fetch upstream tag",
     "checkout -b", "push origin --force" >>

\* Values of the target-repo / upstream-repo inputs, and of github-token.
RepoInputs ==
  { << >>, << "o", "/", "r" >>, << "o" >>, << "/", "r" >>, << "o", "/" >>,
    << "o", "/", "r", "/", "x" >> }
TokenInputs == { << >>, << "t" >> }

\* getInput(name, { required: true }) does not throw
InputSupplied(value) == Trim(value) # << >>

\* const [owner, name] = repo.split('/'); !(!owner || !name)
OwnerAndName(repo) ==
  LET parts == Split(repo, "/")
  IN Len(parts) >= 2 /\ parts[1] # << >> /\ parts[2] # << >>

\* run() gets past its input handling
InputsAccepted(targetRepo, upstreamRepo, token) ==
  /\ InputSupplied(targetRepo) /\ InputSupplied(upstreamRepo) /\ InputSupplied(token)
  /\ OwnerAndName(upstreamRepo) /\ OwnerAndName(targetRepo)

\* Errors a remote call of run() can fail with: a rate-limit response, which
\* both controllers retry, and a 404, which neither retries.
SyncErrors == { ErrPrimary, ErrNotFound }

\* What the upstream repository can have as its tags, in the order listed.
UpstreamTagLists ==
  { << >>, << Tag_not_a_tag >>, << Tag_v1_0_0 >>, << Tag_v1_0_0, Tag_v1_1_0 >>,
    << Tag_v1_1_0, Tag_not_a_tag, Tag_v1_0_0 >> }

RECURSIVE Flatten(_)
Flatten(pages) == IF pages = << >> THEN << >> ELSE Head(pages) \o Flatten(Tail(pages))

\* The listings the remote can serve: each list cut into non-empty pages.
UpstreamListings ==
  { l \in UNION { [1..n -> UNION { DistinctSeqs(Range(t), Len(t)) : t \in UpstreamTagLists } \ { << >> }]
                    : n \in 0..MaxPages } :
      Flatten(l) \in UpstreamTagLists }

\* An issue or pull request of the target repository.
Item(isPr, state, merged, labels, head, title, number, by) ==
  [pr |-> isPr, state |-> state, merged |-> merged, labels |-> labels,
   head |-> head, title |-> title, number |-> number, by |-> by]

\* What the target repository can hold before the first run: issues and pull
\* requests, in any state, labelled as synced for upstream tag v1.1.0.
InitialItemKinds ==
  { Item(TRUE, "open", FALSE, { SyncLabelOf(Tag_v1_1_0) }, BranchNameOf(Tag_v1_1_0), PrTitleOf(Tag_v1_1_0), 0, 0),
    Item(TRUE, "closed", FALSE, { SyncLabelOf(Tag_v1_1_0) }, BranchNameOf(Tag_v1_1_0), PrTitleOf(Tag_v1_1_0), 0, 0),
    Item(TRUE, "closed", TRUE, { SyncLabelOf(Tag_v1_1_0) }, BranchNameOf(Tag_v1_1_0), PrTitleOf(Tag_v1_1_0), 0, 0),
    Item(FALSE, "open", FALSE, { SyncLabelOf(Tag_v1_1_0) }, Null, PrTitleOf(Tag_v1_1_0), 0, 0) }

\* Items are kept newest first; numbers are given in order of creation, and
\* one head branch has at most one open pull request.
InitialItems ==
  { [ i \in 1..Len(q) |-> [q[i] EXCEPT !.number = Len(q) + 1 - i] ] :
      q \in { r \in UNION { [1..n -> InitialItemKinds] : n \in 0..MaxItems } :
                \A i, j \in 1..Len(r) :
                  (i # j /\ r[i].pr /\ r[j].pr /\ r[i].state = "open" /\ r[j].state = "open")
                    => r[i].head # r[j].head } }

\* issues.listForRepo({ labels: syncLabel, state: 'all', per_page: 1, sort: 'created',
\* direction: 'desc' }) followed by items.some(i => !!i.pull_request)
CheckExistingSyncGitHub(its, syncLabel) ==
  LET labelled == SelectSeq(its, LAMBDA it : syncLabel \in it.labels)
      firstPage == SubSeq(labelled, 1, IF Len(labelled) >= 1 THEN 1 ELSE 0)
  IN \E k \in 1..Len(firstPage) : firstPage[k].pr

\* search.issuesAndPullRequests({ q: repo:.. label:"syncLabel" is:pr }).total_count > 0
\* (variant: only open pull requests are counted)
CheckExistingSyncSearchOpen(its, syncLabel) ==
  Len(SelectSeq(its, LAMBDA it : it.pr /\ syncLabel \in it.labels /\ it.state = "open")) > 0

CheckExistingSyncSearch(its, syncLabel) ==
  Len(SelectSeq(its, LAMBDA it : it.pr /\ syncLabel \in it.labels)) > 0

\* checkExistingSync of the two source versions of the action
\* (variant: the label is never found)
CheckExistingSyncNever(v, its, syncLabel) == FALSE

CheckExistingSync(v, its, syncLabel) ==
  IF v = GitHubRateLimit THEN CheckExistingSyncGitHub(its, syncLabel)
  ELSE CheckExistingSyncSearch(its, syncLabel)

\* An invocation that has not started.
Fresh ==
  [pc |-> "idle", attempt |-> 0, resume |-> "none", page |-> 0, tags |-> << >>,
   latestTag |-> Null, gitStep |-> 0, prNumber |-> 0, seen |-> {}, faults |-> 0,
   prAtCheck |-> FALSE, labelAtCheck |-> FALSE, syncExists |-> "undefined",
   checks |-> 0, gitCmds |-> 0, pushes |-> 0, prRequests |-> 0, prCreated |-> 0,
   labelCalls |-> 0, failed |-> 0]

\* The process has exited; nothing of it remains.
Exited == [Fresh EXCEPT !.pc = "exited"]

Terminal == { "NOTHING", "SKIPPED", "LABELED", "FAILED" }

\* run() returns, or throws into the top-level catch: the locals are gone.
Ended(r, outcome) ==
  [r EXCEPT !.pc = outcome, !.attempt = 0, !.resume = "none", !.page = 0, !.tags = << >>,
            !.gitStep = 0]

ThrownUnreported(r) == Ended(r, "FAILED")

\* try { await run() } catch (err) { setFailed(...) }
Thrown(r) == [Ended(r, "FAILED") EXCEPT !.failed = @ + 1]

\* (variant: the attempt counter of the operation before is carried over)
BeginOpCarried(r, op) ==
  [r EXCEPT !.pc = op, !.attempt = IF @ = 0 THEN 1 ELSE @, !.resume = "none",
            !.page = IF op = "listTags" THEN 1 ELSE 0, !.tags = << >>]

\* Entry of a retry controller around operation op: attempt = 1, fresh closure.
BeginOp(r, op) ==
  [r EXCEPT !.pc = op, !.attempt = 1, !.resume = "none",
            !.page = IF op = "listTags" THEN 1 ELSE 0, !.tags = << >>]

OnErrorSwallowed(r, e, op, now, jitter) == Ended(r, "LABELED")

\* A remote call of operation op rejected with e: the controller's catch block.
OnError(r, e, op, now, jitter) ==
  IF Catch(variant, e, r.attempt, DefaultMaxAttempts, DefaultBaseDelay, now, jitter).act = "throw"
  THEN Thrown(r)
  ELSE [r EXCEPT !.pc = "retrySleep", !.resume = op, !.page = 0, !.tags = << >>]

\* The remote may answer the next call of the run with an error.
MayFail(r) == r.faults < MaxFaults
Fault(r) == [r EXCEPT !.faults = @ + 1]

NumPages == IF Len(upstream) = 0 THEN 1 ELSE Len(upstream)
PageAt(k) == IF Len(upstream) = 0 THEN << >> ELSE upstream[k]

NoRunInProgress == \A q \in Procs : inv[q].pc \in {"idle", "exited"}

SyncInit ==
  /\ variant \in Variants
  /\ upstream \in UpstreamListings
  /\ items \in InitialItems
  /\ branches = {}
  /\ inv = [p \in Procs |-> Fresh]
  /\ labeledTags = {}
  /\ RetryOff /\ TagsOff /\ TomOff

\* run(): inputs, getOctokit, split and validation, up to the call of getLatestTag.
Begin(p) ==
  /\ inv[p].pc = "idle"
  /\ \E targetRepo \in RepoInputs, upstreamRepo \in RepoInputs, token \in TokenInputs :
       inv' = [inv EXCEPT ![p] =
                 IF InputsAccepted(targetRepo, upstreamRepo, token)
                 THEN [BeginOp(@, "listTags") EXCEPT !.seen = labeledTags]
                 ELSE Thrown(@)]
  /\ UNCHANGED << variant, retryVars, tagVars, upstream, items, branches, labeledTags, tomVars >>

\* The workflow runs are serialized: a run starts when the one before has exited.
Start(p) ==
  /\ \A q \in 1..(p - 1) : inv[q].pc = "exited"
  /\ Begin(p)

\* getLatestTag: the iterator requests the next page of repos.listTags.
FetchPage(p) ==
  /\ inv[p].pc = "listTags"
  /\ \/ inv' = [inv EXCEPT ![p] = [@ EXCEPT !.tags = @ \o PageAt(inv[p].page), !.pc = "pageDelay"]]
     \/ /\ MayFail(inv[p])
        /\ \E e \in SyncErrors, now \in NowChoices, jitter \in JitterChoices :
             inv' = [inv EXCEPT ![p] = OnError(Fault(@), e, "listTags", now, jitter)]
  /\ UNCHANGED << variant, retryVars, tagVars, upstream, items, branches, labeledTags, tomVars >>

\* run() after getLatestTag returned: if (!latestTag) return; else on to
\* checkExistingSync.
\* (variant: the null test is missing)
GotLatestTagUnchecked(r, latestTag) ==
  [BeginOp(r, "checkExistingSync") EXCEPT !.latestTag = latestTag]

GotLatestTag(r, latestTag) ==
  IF latestTag = Null
  THEN Ended(r, "NOTHING")
  ELSE [BeginOp(r, "checkExistingSync") EXCEPT !.latestTag = latestTag]

\* The result of getLatestTag for each complete listing, computed once.
LatestTagOf == [ tags \in UpstreamTagLists |-> LatestOf(tags) ]

\* getLatestTag: the 1 s pause after a page ends; next page, or filter, sort and
\* return to run().
PageDelay(p) ==
  /\ inv[p].pc = "pageDelay"
  /\ inv' = [inv EXCEPT ![p] =
               IF inv[p].page < NumPages
               THEN [@ EXCEPT !.page = @ + 1, !.pc = "listTags"]
               ELSE GotLatestTag(@, LatestTagOf[inv[p].tags])]
  /\ UNCHANGED << variant, retryVars, tagVars, upstream, items, branches, labeledTags, tomVars >>

\* const syncExists = await checkExistingSync(...): the query was answered.
\* prAtCheck and labelAtCheck record what the target repository held at that
\* time: a pull request, or any item, carrying the label.
Checked(r, its, syncExists) ==
  [r EXCEPT !.checks = @ + 1,
            !.syncExists = IF syncExists THEN "true" ELSE "false",
            !.prAtCheck = \E k \in 1..Len(its) : its[k].pr /\ SyncLabelOf(r.latestTag) \in its[k].labels,
            !.labelAtCheck = \E k \in 1..Len(its) : SyncLabelOf(r.latestTag) \in its[k].labels]

GotSyncExistsIgnored(r) == BeginOp(r, "getDefaultBranch")

\* if (syncExists) return; else on to getDefaultBranch.
GotSyncExists(r) ==
  IF r.syncExists = "true" THEN Ended(r, "SKIPPED") ELSE BeginOp(r, "getDefaultBranch")

\* checkExistingSync: the query for the label, and the branch of run() on its result.
CheckExisting(p) ==
  /\ inv[p].pc = "checkExistingSync"
  /\ \/ inv' = [inv EXCEPT ![p] =
                  GotSyncExists(Checked(@, items,
                                        CheckExistingSync(variant, items, SyncLabelOf(inv[p].latestTag))))]
     \/ /\ MayFail(inv[p])
        /\ \E e \in SyncErrors, now \in NowChoices, jitter \in JitterChoices :
             inv' = [inv EXCEPT ![p] =
                       OnError(Fault([@ EXCEPT !.checks = @ + 1]), e, "checkExistingSync", now, jitter)]
  /\ UNCHANGED << variant, retryVars, tagVars, upstream, items, branches, labeledTags, tomVars >>

\* getDefaultBranch: repos.get
GetDefaultBranch(p) ==
  /\ inv[p].pc = "getDefaultBranch"
  /\ \/ inv' = [inv EXCEPT ![p] = [@ EXCEPT !.pc = "git", !.attempt = 0, !.gitStep = 1]]
     \/ /\ MayFail(inv[p])
        /\ \E e \in SyncErrors, now \in NowChoices, jitter \in JitterChoices :
             inv' = [inv EXCEPT ![p] = OnError(Fault(@), e, "getDefaultBranch", now, jitter)]
  /\ UNCHANGED << variant, retryVars, tagVars, upstream, items, branches, labeledTags, tomVars >>

\* (variant: a failing command is handed to the retry controller)
GitExecRetried(p) ==
  /\ inv[p].pc = "git"
  /\ \/ /\ inv' = [inv EXCEPT ![p] = [@ EXCEPT !.gitCmds = @ + 1, !.pc = "retrySleep",
                                                !.resume = "git"]]
        /\ UNCHANGED branches
     \/ /\ inv[p].gitStep < Len(GitCommands)
        /\ inv' = [inv EXCEPT ![p] = [@ EXCEPT !.gitCmds = @ + 1, !.gitStep = @ + 1]]
        /\ UNCHANGED branches
     \/ /\ inv[p].gitStep = Len(GitCommands)
        /\ inv' = [inv EXCEPT ![p] =
                     BeginOp([@ EXCEPT !.gitCmds = @ + 1, !.pushes = @ + 1, !.gitStep = 0], "pullsCreate")]
        /\ branches' = branches \cup { BranchNameOf(inv[p].latestTag) }
  /\ UNCHANGED << variant, retryVars, tagVars, upstream, items, labeledTags, tomVars >>

\* await exec('git', [...]): the command fails (exec throws) or succeeds; the
\* last command puts the branch into the target repository.
GitExec(p) ==
  /\ inv[p].pc = "git"
  /\ \/ /\ inv' = [inv EXCEPT ![p] = Thrown([@ EXCEPT !.gitCmds = @ + 1])]
        /\ UNCHANGED branches
     \/ /\ inv[p].gitStep < Len(GitCommands)
        /\ inv' = [inv EXCEPT ![p] = [@ EXCEPT !.gitCmds = @ + 1, !.gitStep = @ + 1]]
        /\ UNCHANGED branches
     \/ /\ inv[p].gitStep = Len(GitCommands)
        /\ inv' = [inv EXCEPT ![p] =
                     BeginOp([@ EXCEPT !.gitCmds = @ + 1, !.pushes = @ + 1, !.gitStep = 0], "pullsCreate")]
        /\ branches' = branches \cup { BranchNameOf(inv[p].latestTag) }
  /\ UNCHANGED << variant, retryVars, tagVars, upstream, items, labeledTags, tomVars >>

PullRefusedNever(its, brs, head) == FALSE

\* The remote refuses a second open pull request for a head branch, and a
\* pull request for a branch that does not exist (422).
PullRefused(its, brs, head) ==
  \/ head \notin brs
  \/ \E k \in 1..Len(its) : its[k].pr /\ its[k].state = "open" /\ its[k].head = head

\* createPullRequest: pulls.create
PullsCreate(p) ==
  /\ inv[p].pc = "pullsCreate"
  /\ \/ /\ ~PullRefused(items, branches, BranchNameOf(inv[p].latestTag))
        /\ items' = << Item(TRUE, "open", FALSE, {}, BranchNameOf(inv[p].latestTag),
                            PrTitleOf(inv[p].latestTag), Len(items) + 1, p) >> \o items
        /\ inv' = [inv EXCEPT ![p] = [@ EXCEPT !.prRequests = @ + 1, !.prCreated = @ + 1,
                                                !.prNumber = Len(items) + 1, !.pc = "addLabels"]]
     \/ /\ PullRefused(items, branches, BranchNameOf(inv[p].latestTag))
        /\ \E now \in NowChoices, jitter \in JitterChoices :
             inv' = [inv EXCEPT ![p] = OnError([@ EXCEPT !.prRequests = @ + 1], ErrValidation,
                                               "pullsCreate", now, jitter)]
        /\ UNCHANGED items
     \/ /\ MayFail(inv[p])
        /\ \E e \in SyncErrors, now \in NowChoices, jitter \in JitterChoices :
             inv' = [inv EXCEPT ![p] =
                       OnError(Fault([@ EXCEPT !.prRequests = @ + 1]), e, "pullsCreate", now, jitter)]
        /\ UNCHANGED items
  /\ UNCHANGED << variant, retryVars, tagVars, upstream, branches, labeledTags, tomVars >>

\* createPullRequest: issues.addLabels on the pull request just created, return
\* of pr.number, and the end of run().  A failure is caught by the controller
\* around the whole operation, which starts again at pulls.create.
AddLabels(p) ==
  /\ inv[p].pc = "addLabels"
  /\ \/ /\ items' = [ k \in 1..Len(items) |->
                        IF items[k].number = inv[p].prNumber
                        THEN [items[k] EXCEPT !.labels = @ \cup PrLabelsOf(inv[p].latestTag)]
                        ELSE items[k] ]
        /\ inv' = [inv EXCEPT ![p] = Ended([@ EXCEPT !.labelCalls = @ + 1], "LABELED")]
        /\ labeledTags' = labeledTags \cup { inv[p].latestTag }
     \/ /\ MayFail(inv[p])
        /\ \E e \in SyncErrors, now \in NowChoices, jitter \in JitterChoices :
             inv' = [inv EXCEPT ![p] =
                       OnError(Fault([@ EXCEPT !.labelCalls = @ + 1]), e, "pullsCreate", now, jitter)]
        /\ UNCHANGED << items, labeledTags >>
  /\ UNCHANGED << variant, retryVars, tagVars, upstream, branches, tomVars >>

RetryWakeSyncSameAttempt(p) ==
  /\ inv[p].pc = "retrySleep"
  /\ inv' = [inv EXCEPT ![p] =
               [@ EXCEPT !.pc = inv[p].resume, !.resume = "none",
                         !.page = IF inv[p].resume = "listTags" THEN 1 ELSE 0]]
  /\ UNCHANGED << variant, retryVars, tagVars, upstream, items, branches, labeledTags, tomVars >>

\* The controller's sleep ends: attempt++, loop test, and the operation again.
RetryWakeSync(p) ==
  /\ inv[p].pc = "retrySleep"
  /\ inv' = [inv EXCEPT ![p] =
               IF inv[p].attempt + 1 <= DefaultMaxAttempts
               THEN [@ EXCEPT !.pc = inv[p].resume, !.attempt = @ + 1, !.resume = "none",
                              !.page = IF inv[p].resume = "listTags" THEN 1 ELSE 0]
               ELSE Thrown(@)]
  /\ UNCHANGED << variant, retryVars, tagVars, upstream, items, branches, labeledTags, tomVars >>

\* The process of the invocation exits.
Exit(p) ==
  /\ inv[p].pc \in Terminal
  /\ inv' = [inv EXCEPT ![p] = Exited]
  /\ UNCHANGED << variant, retryVars, tagVars, upstream, items, branches, labeledTags, tomVars >>

\* Between runs a maintainer closes or merges a pull request of the action,
\* or deletes a sync branch.
ClosePullRequest(k) ==
  /\ NoRunInProgress
  /\ items[k].pr /\ items[k].state = "open" /\ items[k].by # 0
  /\ items' = [items EXCEPT ![k].state = "closed"]
  /\ UNCHANGED << variant, retryVars, tagVars, upstream, branches, inv, labeledTags, tomVars >>

MergePullRequest(k) ==
  /\ NoRunInProgress
  /\ items[k].pr /\ items[k].state = "open" /\ items[k].by # 0
  /\ items' = [items EXCEPT ![k].state = "closed", ![k].merged = TRUE]
  /\ UNCHANGED << variant, retryVars, tagVars, upstream, branches, inv, labeledTags, tomVars >>

DeleteBranch(b) ==
  /\ NoRunInProgress
  /\ b \in branches
  /\ branches' = branches \ { b }
  /\ UNCHANGED << variant, retryVars, tagVars, upstream, items, inv, labeledTags, tomVars >>

Next ==
  \/ \E p \in Procs :
       \/ Start(p) \/ FetchPage(p) \/ PageDelay(p) \/ CheckExisting(p) \/ GetDefaultBranch(p)
       \/ GitExec(p) \/ PullsCreate(p) \/ AddLabels(p) \/ RetryWakeSync(p) \/ Exit(p)
  \/ \E k \in 1..Len(items) : ClosePullRequest(k) \/ MergePullRequest(k)
  \/ \E b \in branches : DeleteBranch(b)

Spec == SyncInit /\ [][Next]_vars

(***************************************************************************)
(* Two workflow runs of the sync action at the same time                    *)
(***************************************************************************)

\* The two invocations that may overlap.
Overlapping == { 1, 2 }

\* The target repository holds no issue and no pull request yet.
ConcurrentInit ==
  /\ variant \in Variants
  /\ upstream \in UpstreamListings
  /\ items = << >>
  /\ branches = {}
  /\ inv = [p \in Procs |-> Fresh]
  /\ labeledTags = {}
  /\ RetryOff /\ TagsOff /\ TomOff

\* A run starts whatever the other one is doing.
StartAnyTime(p) == Begin(p)

ConcurrentNext ==
  \E p \in Overlapping :
    \/ StartAnyTime(p) \/ FetchPage(p) \/ PageDelay(p) \/ CheckExisting(p) \/ GetDefaultBranch(p)
    \/ GitExec(p) \/ PullsCreate(p) \/ AddLabels(p) \/ RetryWakeSync(p) \/ Exit(p)

SpecConcurrent == ConcurrentInit /\ [][ConcurrentNext]_vars

(***************************************************************************)
(* Runs whose remote calls may fail any number of times, under the         *)
(* assumption that every call, command and sleep returns                   *)
(***************************************************************************)

RemoteCalls ==
  { "listTags", "checkExistingSync", "getDefaultBranch", "pullsCreate", "addLabels" }

\* The call in flight was issued; it is about to be rejected.
Rejected(r) ==
  [r EXCEPT !.checks = IF r.pc = "checkExistingSync" THEN @ + 1 ELSE @,
            !.prRequests = IF r.pc = "pullsCreate" THEN @ + 1 ELSE @,
            !.labelCalls = IF r.pc = "addLabels" THEN @ + 1 ELSE @]

\* The operation the controller runs again after a failure at pc.
OperationOf(pc) == IF pc = "addLabels" THEN "pullsCreate" ELSE pc

\* The remote rejects the call in flight, however many calls it rejected before.
RejectCall(p) ==
  /\ inv[p].pc \in RemoteCalls
  /\ \E e \in SyncErrors, now \in NowChoices, jitter \in JitterChoices :
       inv' = [inv EXCEPT ![p] = OnError(Rejected(@), e, OperationOf(inv[p].pc), now, jitter)]
  /\ UNCHANGED << variant, retryVars, tagVars, upstream, items, branches, labeledTags, tomVars >>

\* The steps of invocation p that follow its start: each is the return of a
\* remote call, of a git command or of a sleep.
Returns(p) ==
  \/ FetchPage(p) \/ PageDelay(p) \/ CheckExisting(p) \/ GetDefaultBranch(p)
  \/ GitExec(p) \/ PullsCreate(p) \/ AddLabels(p) \/ RetryWakeSync(p) \/ RejectCall(p)

LiveNext ==
  \E p \in Procs :
    \/ Start(p) \/ FetchPage(p) \/ PageDelay(p) \/ CheckExisting(p) \/ GetDefaultBranch(p)
    \/ GitExec(p) \/ PullsCreate(p) \/ AddLabels(p) \/ RetryWakeSync(p) \/ RejectCall(p)
    \/ Exit(p)

\* The target repository holds at most one labelled item before the first run.
LiveInit == SyncInit /\ Len(items) <= 1

SpecLive == LiveInit /\ [][LiveNext]_vars /\ \A p \in Procs : WF_vars(Returns(p))

(***************************************************************************)
(* The merge-based version of the sync action (index.mjs): no retry         *)
(* controller, run() catches its own errors                                 *)
(***************************************************************************)

MergeBased == "merge"

\* title: `Sync with upstream tag ${latestTag}`, with '[Conflicts] ' in front
\* when the merge failed
MjsTitlePrefix == << "S", "y", "n", "c", " ", "w", "i", "t", "h", " ", "u", "p", "s", "t", "r", "e", "a", "m", " ", "t", "a", "g", " " >>
ConflictsMarker == << "[", "C", "o", "n", "f", "l", "i", "c", "t", "s", "]", " " >>
MjsTitleUnmarked(latestTag, hasConflicts) == MjsTitlePrefix \o latestTag

MjsTitleOf(latestTag, hasConflicts) ==
  IF hasConflicts THEN ConflictsMarker \o MjsTitlePrefix \o latestTag
  ELSE MjsTitlePrefix \o latestTag

\* const labels = [labelName]; if (hasConflicts) labels.push('merge-conflicts')
MergeConflictsLabel == << "m", "e", "r", "g", "e", "-", "c", "o", "n", "f", "l", "i", "c", "t", "s" >>
MjsLabelsOf(latestTag, hasConflicts) ==
  IF hasConflicts THEN { SyncLabelOf(latestTag), MergeConflictsLabel }
  ELSE { SyncLabelOf(latestTag) }

\* The git commands before the merge, in order.
MjsGitCommands ==
  << "config --global user.name", "config --global user.email", "remote add upstream",
     "fetch upstream --tags", "checkout -b" >>

\* The git commands of the catch block around the merge.
MjsConflictCommands == << "add .", "commit --no-verify" >>

MjsFresh ==
  [pc |-> "mjs.idle", upstreamOk |-> TRUE, targetOk |-> TRUE, latestTag |-> Null,
   gitStep |-> 0, hasConflicts |-> FALSE, prNumber |-> 0, raised |-> 0, calls |-> 0,
   gitCmds |-> 0, pushes |-> 0, prRequests |-> 0, prCreated |-> 0, labelCalls |-> 0,
   failed |-> 0]

\* catch (error) { core.setFailed(error.message) } at the end of run()
MjsThrown(r) == [r EXCEPT !.pc = "FAILED", !.gitStep = 0, !.raised = @ + 1, !.failed = @ + 1]

MjsInit ==
  /\ variant = MergeBased
  /\ upstream \in UpstreamListings
  /\ items \in InitialItems
  /\ branches = {}
  /\ inv = [p \in Procs |-> MjsFresh]
  /\ labeledTags = {}
  /\ RetryOff /\ TagsOff /\ TomOff

\* run(): the three getInput calls with required: true, and getOctokit; the
\* repository inputs are split later, without a test of their parts.
MjsBegin(p) ==
  /\ inv[p].pc = "mjs.idle"
  /\ \A q \in 1..(p - 1) : inv[q].pc = "exited"
  /\ \E targetRepo \in RepoInputs, upstreamRepo \in RepoInputs, token \in TokenInputs :
       inv' = [inv EXCEPT ![p] =
                 IF InputSupplied(targetRepo) /\ InputSupplied(upstreamRepo) /\ InputSupplied(token)
                 THEN [@ EXCEPT !.pc = "mjs.listTags", !.upstreamOk = OwnerAndName(upstreamRepo),
                                !.targetOk = OwnerAndName(targetRepo)]
                 ELSE MjsThrown(@)]
  /\ UNCHANGED << variant, retryVars, tagVars, upstream, items, branches, labeledTags, tomVars >>

\* repos.listTags({ per_page: 1 }): the first tag of the listing, unfiltered;
\* if (!tags.length) return
MjsListTags(p) ==
  /\ inv[p].pc = "mjs.listTags"
  /\ \/ /\ inv[p].upstreamOk
        /\ inv' = [inv EXCEPT ![p] =
                     IF Len(Flatten(upstream)) = 0
                     THEN [@ EXCEPT !.pc = "NOTHING", !.calls = @ + 1]
                     ELSE [@ EXCEPT !.pc = "mjs.search", !.calls = @ + 1,
                                    !.latestTag = Flatten(upstream)[1]]]
     \/ inv' = [inv EXCEPT ![p] = MjsThrown([@ EXCEPT !.calls = @ + 1])]
  /\ UNCHANGED << variant, retryVars, tagVars, upstream, items, branches, labeledTags, tomVars >>

\* search.issuesAndPullRequests(`repo:... is:pr label:"..."`); total_count > 0: return
MjsSearch(p) ==
  /\ inv[p].pc = "mjs.search"
  /\ \/ /\ inv[p].targetOk
        /\ inv' = [inv EXCEPT ![p] =
                     IF CheckExistingSyncSearch(items, SyncLabelOf(inv[p].latestTag))
                     THEN [@ EXCEPT !.pc = "SKIPPED", !.calls = @ + 1]
                     ELSE [@ EXCEPT !.pc = "mjs.git", !.calls = @ + 1, !.gitStep = 1]]
     \/ inv' = [inv EXCEPT ![p] = MjsThrown([@ EXCEPT !.calls = @ + 1])]
  /\ UNCHANGED << variant, retryVars, tagVars, upstream, items, branches, labeledTags, tomVars >>

\* await exec.exec('git', [...]) for the commands before the merge
MjsGitExec(p) ==
  /\ inv[p].pc = "mjs.git"
  /\ \/ inv' = [inv EXCEPT ![p] = MjsThrown([@ EXCEPT !.gitCmds = @ + 1])]
     \/ inv' = [inv EXCEPT ![p] =
                  IF inv[p].gitStep < Len(MjsGitCommands)
                  THEN [@ EXCEPT !.gitCmds = @ + 1, !.gitStep = @ + 1]
                  ELSE [@ EXCEPT !.gitCmds = @ + 1, !.gitStep = 0, !.pc = "mjs.merge"]]
  /\ UNCHANGED << variant, retryVars, tagVars, upstream, items, branches, labeledTags, tomVars >>

\* try { git merge latestTag } catch (error) { hasConflicts = true; ... }
MjsMerge(p) ==
  /\ inv[p].pc = "mjs.merge"
  /\ \/ inv' = [inv EXCEPT ![p] = [@ EXCEPT !.gitCmds = @ + 1, !.pc = "mjs.push"]]
     \/ inv' = [inv EXCEPT ![p] = [@ EXCEPT !.gitCmds = @ + 1, !.raised = @ + 1,
                                             !.hasConflicts = TRUE, !.gitStep = 1,
                                             !.pc = "mjs.conflict"]]
  /\ UNCHANGED << variant, retryVars, tagVars, upstream, items, branches, labeledTags, tomVars >>

\* The catch block of the merge: git add, git commit; a failure of either
\* leaves the block as an error of run().
MjsConflict(p) ==
  /\ inv[p].pc = "mjs.conflict"
  /\ \/ inv' = [inv EXCEPT ![p] = MjsThrown([@ EXCEPT !.gitCmds = @ + 1])]
     \/ inv' = [inv EXCEPT ![p] =
                  IF inv[p].gitStep < Len(MjsConflictCommands)
                  THEN [@ EXCEPT !.gitCmds = @ + 1, !.gitStep = @ + 1]
                  ELSE [@ EXCEPT !.gitCmds = @ + 1, !.gitStep = 0, !.pc = "mjs.push"]]
  /\ UNCHANGED << variant, retryVars, tagVars, upstream, items, branches, labeledTags, tomVars >>

\* git push <target> branchName --force
MjsPush(p) ==
  /\ inv[p].pc = "mjs.push"
  /\ \/ /\ inv' = [inv EXCEPT ![p] = MjsThrown([@ EXCEPT !.gitCmds = @ + 1])]
        /\ UNCHANGED branches
     \/ /\ inv' = [inv EXCEPT ![p] = [@ EXCEPT !.gitCmds = @ + 1, !.pushes = @ + 1,
                                                !.pc = "mjs.reposGet"]]
        /\ branches' = branches \cup { BranchNameOf(inv[p].latestTag) }
  /\ UNCHANGED << variant, retryVars, tagVars, upstream, items, labeledTags, tomVars >>

\* repos.get: default_branch
MjsReposGet(p) ==
  /\ inv[p].pc = "mjs.reposGet"
  /\ \/ inv' = [inv EXCEPT ![p] = MjsThrown([@ EXCEPT !.calls = @ + 1])]
     \/ inv' = [inv EXCEPT ![p] = [@ EXCEPT !.calls = @ + 1, !.pc = "mjs.pullsCreate"]]
  /\ UNCHANGED << variant, retryVars, tagVars, upstream, items, branches, labeledTags, tomVars >>

\* pulls.create with the title chosen by hasConflicts
MjsPullsCreate(p) ==
  /\ inv[p].pc = "mjs.pullsCreate"
  /\ \/ /\ ~PullRefused(items, branches, BranchNameOf(inv[p].latestTag))
        /\ items' = << Item(TRUE, "open", FALSE, {}, BranchNameOf(inv[p].latestTag),
                            MjsTitleOf(inv[p].latestTag, inv[p].hasConflicts),
                            Len(items) + 1, p) >> \o items
        /\ inv' = [inv EXCEPT ![p] = [@ EXCEPT !.prRequests = @ + 1, !.prCreated = @ + 1,
                                                !.prNumber = Len(items) + 1,
                                                !.pc = "mjs.addLabels"]]
     \/ /\ inv' = [inv EXCEPT ![p] = MjsThrown([@ EXCEPT !.prRequests = @ + 1])]
        /\ UNCHANGED items
  /\ UNCHANGED << variant, retryVars, tagVars, upstream, branches, labeledTags, tomVars >>

\* issues.addLabels({ issue_number: pr.number, labels }), and the end of run()
MjsAddLabels(p) ==
  /\ inv[p].pc = "mjs.addLabels"
  /\ \/ /\ items' = [ k \in 1..Len(items) |->
                        IF items[k].number = inv[p].prNumber
                        THEN [items[k] EXCEPT !.labels =
                                @ \cup MjsLabelsOf(inv[p].latestTag, inv[p].hasConflicts)]
                        ELSE items[k] ]
        /\ inv' = [inv EXCEPT ![p] = [@ EXCEPT !.labelCalls = @ + 1, !.pc = "LABELED"]]
        /\ labeledTags' = labeledTags \cup { inv[p].latestTag }
     \/ /\ inv' = [inv EXCEPT ![p] = MjsThrown([@ EXCEPT !.labelCalls = @ + 1])]
        /\ UNCHANGED << items, labeledTags >>
  /\ UNCHANGED << variant, retryVars, tagVars, upstream, branches, tomVars >>

MjsNext ==
  \E p \in Procs :
    \/ MjsBegin(p) \/ MjsListTags(p) \/ MjsSearch(p) \/ MjsGitExec(p) \/ MjsMerge(p)
    \/ MjsConflict(p) \/ MjsPush(p) \/ MjsReposGet(p) \/ MjsPullsCreate(p)
    \/ MjsAddLabels(p) \/ Exit(p)

SpecMerge == MjsInit /\ [][MjsNext]_vars

\* The three versions of the sync action side by side: a behaviour is a
\* behaviour of one version.
BoundaryInit == SyncInit \/ MjsInit
BoundaryNext == Next \/ MjsNext
SpecBoundary == BoundaryInit /\ [][BoundaryNext]_vars

(***************************************************************************)
(* The merge-based version with a semver resolver (unnamed/part_005): its  *)
(* run() is that of index.mjs from the search on                            *)
(***************************************************************************)

MergeSemver == "merge-semver"

P5Init ==
  /\ variant = MergeSemver
  /\ upstream \in UpstreamListings
  /\ items \in InitialItems
  /\ branches = {}
  /\ inv = [p \in Procs |-> MjsFresh]
  /\ labeledTags = {}
  /\ RetryOff /\ TagsOff /\ TomOff

\* run(): the three getInput calls with required: true, getOctokit and the
\* split of upstream-repo.
P5Begin(p) ==
  /\ inv[p].pc = "mjs.idle"
  /\ \A q \in 1..(p - 1) : inv[q].pc = "exited"
  /\ \E targetRepo \in RepoInputs, upstreamRepo \in RepoInputs, token \in TokenInputs :
       inv' = [inv EXCEPT ![p] =
                 IF InputSupplied(targetRepo) /\ InputSupplied(upstreamRepo) /\ InputSupplied(token)
                 THEN [@ EXCEPT !.pc = "p5.listTags", !.upstreamOk = OwnerAndName(upstreamRepo),
                                !.targetOk = OwnerAndName(targetRepo)]
                 ELSE MjsThrown(@)]
  /\ UNCHANGED << variant, retryVars, tagVars, upstream, items, branches, labeledTags, tomVars >>

\* getLatestTag after the one request of repos.listTags({ per_page: 100 }):
\* map, filter, sort of the names of that page; run() goes on with the result,
\* null included.
P5GotTags(r, pages) ==
  [r EXCEPT !.pc = "mjs.search", !.calls = @ + 1,
            !.latestTag = LatestOf(IF Len(pages) = 0 THEN << >> ELSE pages[1])]

\* getLatestTag: one request for the first page; catch (error) { throw error }
P5ListTags(p) ==
  /\ inv[p].pc = "p5.listTags"
  /\ \/ /\ inv[p].upstreamOk
        /\ inv' = [inv EXCEPT ![p] = P5GotTags(@, upstream)]
     \/ inv' = [inv EXCEPT ![p] = MjsThrown([@ EXCEPT !.calls = @ + 1])]
  /\ UNCHANGED << variant, retryVars, tagVars, upstream, items, branches, labeledTags, tomVars >>

P5Next ==
  \E p \in Procs :
    \/ P5Begin(p) \/ P5ListTags(p) \/ MjsSearch(p) \/ MjsGitExec(p) \/ MjsMerge(p)
    \/ MjsConflict(p) \/ MjsPush(p) \/ MjsReposGet(p) \/ MjsPullsCreate(p)
    \/ MjsAddLabels(p) \/ Exit(p)

\* The versions of the sync action that resolve the latest semver tag, side
\* by side: a behaviour is a behaviour of one version.
ListingsInit == SyncInit \/ P5Init
ListingsNext == Next \/ P5Next
SpecListings == ListingsInit /\ [][ListingsNext]_vars

(***************************************************************************)
(* The tag-on-merge action (upstream-tag-on-merge/src/index.ts)             *)
(***************************************************************************)

\* Characters that . of a regular expression does not match.
LineTerminators == { "\n", "\r" }

\* (variant: the pattern is not anchored at the start)
ExtractTagUnanchored(branchName) ==
  IF \E i \in 1..Len(branchName) :
       StartsWith(SubSeq(branchName, i, Len(branchName)), SyncPrefix)
       /\ Len(branchName) - i + 1 > Len(SyncPrefix)
  THEN LET i == CHOOSE j \in 1..Len(branchName) :
                  StartsWith(SubSeq(branchName, j, Len(branchName)), SyncPrefix)
       IN SubSeq(branchName, i + Len(SyncPrefix), Len(branchName))
  ELSE Null

\* /^sync\/upstream-(.+)$/.exec(branchName): match[1], or null
ExtractTagFromBranch(branchName) ==
  IF /\ StartsWith(branchName, SyncPrefix)
     /\ Len(branchName) > Len(SyncPrefix)
     /\ \A i \in (Len(SyncPrefix) + 1)..Len(branchName) : branchName[i] \notin LineTerminators
  THEN SubSeq(branchName, Len(SyncPrefix) + 1, Len(branchName))
  ELSE Null

Tag_v3_4_5 == << "v", "3", ".", "4", ".", "5" >>

\* Values of pull_request.head.ref: branches of the sync action, and others.
BranchInputs ==
  { BranchNameOf(t) : t \in { Tag_v1_0_0, Tag_v1_1_0, Tag_v3_4_5, Tag_2_0_0_rc1, Tag_not_a_tag } }
    \cup { << "f", "e", "a", "t", "u", "r", "e", "/", "u", "n", "r", "e", "l", "a", "t", "e", "d" >>, SyncPrefix,
           << "s", "y", "n", "c", "/", "u", "p", "s", "t", "r", "e", "a", "m" >>,
           << "m", "y", "/", "s", "y", "n", "c", "/", "u", "p", "s", "t", "r", "e", "a", "m", "-", "v", "1", ".", "1", ".", "0" >>,
           << "S", "y", "n", "c", "/", "U", "p", "s", "t", "r", "e", "a", "m", "-", "v", "1", ".", "1", ".", "0" >>,
           SyncPrefix \o << "\n" >>, << >> }

\* String(undefined), which exec() is applied to when head has no ref.
Str_undefined == << "u", "n", "d", "e", "f", "i", "n", "e", "d" >>

\* The keys isPullRequest looks for.
PrKeys == { "merged", "head", "number", "merge_commit_sha" }

\* merge_commit_sha: a commit sha, null, or the empty string.
CommitSha == << "c", "0", "f", "f", "e", "e" >>
ShaValues == { CommitSha, Null, << >> }

\* head: null, an object without ref, or an object with ref.
HeadNull == [isNull |-> TRUE, hasRef |-> FALSE, ref |-> << >>]
HeadNoRef == [isNull |-> FALSE, hasRef |-> FALSE, ref |-> << >>]
HeadOf(branchName) == [isNull |-> FALSE, hasRef |-> TRUE, ref |-> branchName]
HeadValues == { HeadNull, HeadNoRef } \cup { HeadOf(b) : b \in BranchInputs }

\* number: an integer, or null
PrNumber == 123
NumberValues == { PrNumber, Absent }

\* context.payload.pull_request: undefined, a value that is not an object, or
\* an object with the keys it has and their values.
MkPayload(kind, keys, merged, head, number, sha) ==
  [kind |-> kind, keys |-> keys, merged |-> merged, head |-> head, number |-> number,
   sha |-> sha]

NoPullRequest == MkPayload("undefined", {}, FALSE, HeadNull, Absent, Null)
NotAnObject == MkPayload("string", {}, FALSE, HeadNull, Absent, Null)

Payloads ==
  { NoPullRequest, NotAnObject }
    \cup { MkPayload("object", PrKeys, merged, head, number, sha) :
             merged \in BOOLEAN, head \in HeadValues, number \in NumberValues, sha \in ShaValues }
    \cup { MkPayload("object", PrKeys \ { k }, TRUE, HeadOf(BranchNameOf(Tag_v1_1_0)), PrNumber,
                     CommitSha) : k \in PrKeys }

\* function isPullRequest(obj): an object that has the four keys
IsPullRequest(pr) == pr.kind = "object" /\ PrKeys \subseteq pr.keys

\* !pr || !isPullRequest(pr) || !pr.merged  is false
IsMergedPullRequest(pr) == pr.kind # "undefined" /\ IsPullRequest(pr) /\ pr.merged

\* const message = `Tag created from sync PR ` + prNumber.toString()
TagMessageOf(prNumber) == << "T", "a", "g", " ", "c", "r", "e", "a", "t", "e", "d", " ", "f", "r", "o", "m", " ", "s", "y", "n", "c", " ", "P", "R", " " >> \o NatToStr(prNumber)

\* ref: `refs/tags/${tagName}`
RefsTags == << "r", "e", "f", "s", "/", "t", "a", "g", "s", "/" >>
TagRefOf(tagName) == RefsTags \o tagName

TomFresh ==
  [pc |-> "tom.idle", payload |-> NoPullRequest, token |-> << >>, tagName |-> Null,
   attempt |-> 0, faults |-> 0, tagSha |-> 0, tagCalls |-> 0, refCalls |-> 0,
   tagsCreated |-> 0, refsCreated |-> 0, sleeps |-> 0, outcome |-> "none", failed |-> 0]

TomExited == [TomFresh EXCEPT !.pc = "exited"]

TomTerminal == { "SKIPPED", "TAGGED", "FAILED" }

\* try { await run() } catch (err) { setFailed(...) }
TomThrown(r, why) == [r EXCEPT !.pc = "FAILED", !.attempt = 0, !.outcome = why, !.failed = @ + 1]

\* (variant: a skip is reported as a failure)
TomSkippedFailing(r, why) == TomThrown(r, why)

\* info("... Skipping."); return
TomSkipped(r, why) == [r EXCEPT !.pc = "SKIPPED", !.outcome = why]

\* run() from the merge-commit test on: throw, or the call of createAndPushTag.
TomWithTag(r, tagName) ==
  IF r.payload.number = Absent THEN TomThrown(r, "TypeError")
  ELSE IF r.payload.sha \in { Null, << >> } THEN TomThrown(r, "Merge commit SHA is undefined")
  ELSE [r EXCEPT !.pc = "tom.createTag", !.attempt = 1, !.tagName = tagName]

\* (variant: the test of the extracted name is left out)
TomExtractedUntested(r, tagName) == TomWithTag(r, tagName)

\* if (!tagName) { info(...); return }
TomExtracted(r, tagName) ==
  IF tagName = Null THEN TomSkipped(r, "not a sync branch") ELSE TomWithTag(r, tagName)

\* run() up to its first remote call: the merged test, getInput, head.ref,
\* extractTagFromBranch, prNumber.toString(), the merge_commit_sha test.
TomRun(r) ==
  IF ~IsMergedPullRequest(r.payload) THEN TomSkipped(r, "not a merged PR")
  ELSE IF ~InputSupplied(r.token) THEN TomThrown(r, "Input required and not supplied")
  ELSE IF r.payload.head.isNull THEN TomThrown(r, "TypeError")
  ELSE TomExtracted(r, ExtractTagFromBranch(IF r.payload.head.hasRef THEN r.payload.head.ref
                                            ELSE Str_undefined))

\* The catch block of retryWithBackoff around createAndPushTag's operation.
TomOnError(r, e, now, jitter) ==
  IF CatchBackoff(e, r.attempt, DefaultMaxAttempts, DefaultBaseDelay, jitter).act = "throw"
  THEN TomThrown(r, "remote")
  ELSE [r EXCEPT !.pc = "tom.sleep", !.sleeps = @ + 1]

\* The references the repository can hold before the first run.
InitialTagRefs == { {}, { [ref |-> TagRefOf(Tag_v1_1_0), sha |-> 0] } }

TomInit ==
  /\ variant = Backoff
  /\ tagObjects = {}
  /\ tagRefs \in InitialTagRefs
  /\ inv = [p \in Procs |-> TomFresh]
  /\ upstream = << >> /\ items = << >> /\ branches = {} /\ labeledTags = {}
  /\ RetryOff /\ TagsOff

\* A workflow run starts on a pull_request closed event and runs up to the
\* first await.
TomBegin(p) ==
  /\ inv[p].pc = "tom.idle"
  /\ \A q \in 1..(p - 1) : inv[q].pc = "exited"
  /\ \E payload \in Payloads, token \in TokenInputs :
       inv' = [inv EXCEPT ![p] = TomRun([@ EXCEPT !.payload = payload, !.token = token])]
  /\ UNCHANGED << variant, retryVars, tagVars, upstream, items, branches, labeledTags, tomVars >>

\* (variant: the tag object is named after the branch)
TagObjectOfBranch(sha, r) ==
  [sha |-> sha, tag |-> r.payload.head.ref, message |-> TagMessageOf(r.payload.number),
   object |-> r.payload.sha, type |-> "commit"]

\* The tag object git.createTag makes: its sha is new with every call.
TagObject(sha, r) ==
  [sha |-> sha, tag |-> r.tagName, message |-> TagMessageOf(r.payload.number),
   object |-> r.payload.sha, type |-> "commit"]

\* createAndPushTag: git.createTag
TomCreateTag(p) ==
  /\ inv[p].pc = "tom.createTag"
  /\ \/ /\ tagObjects' = tagObjects \cup { TagObject(Cardinality(tagObjects) + 1, inv[p]) }
        /\ inv' = [inv EXCEPT ![p] = [@ EXCEPT !.pc = "tom.createRef", !.tagCalls = @ + 1,
                                                !.tagsCreated = @ + 1,
                                                !.tagSha = Cardinality(tagObjects) + 1]]
     \/ /\ MayFail(inv[p])
        /\ \E e \in SyncErrors, now \in NowChoices, jitter \in JitterChoices :
             inv' = [inv EXCEPT ![p] = TomOnError(Fault([@ EXCEPT !.tagCalls = @ + 1]), e, now, jitter)]
        /\ UNCHANGED tagObjects
  /\ UNCHANGED << variant, retryVars, tagVars, syncVarsButInv, tagRefs >>

\* The remote refuses a reference that exists (422 Reference already exists).
RefRefused(refs, ref) == \E x \in refs : x.ref = ref

\* createAndPushTag: git.createRef with sha: tag.sha, and the end of run()
TomCreateRef(p) ==
  /\ inv[p].pc = "tom.createRef"
  /\ \/ /\ ~RefRefused(tagRefs, TagRefOf(inv[p].tagName))
        /\ tagRefs' = tagRefs \cup { [ref |-> TagRefOf(inv[p].tagName), sha |-> inv[p].tagSha] }
        /\ inv' = [inv EXCEPT ![p] = [@ EXCEPT !.pc = "TAGGED", !.attempt = 0, !.refCalls = @ + 1,
                                                !.refsCreated = @ + 1, !.outcome = "tagged"]]
     \/ /\ RefRefused(tagRefs, TagRefOf(inv[p].tagName))
        /\ \E now \in NowChoices, jitter \in JitterChoices :
             inv' = [inv EXCEPT ![p] = TomOnError([@ EXCEPT !.refCalls = @ + 1], ErrValidation, now, jitter)]
        /\ UNCHANGED tagRefs
     \/ /\ MayFail(inv[p])
        /\ \E e \in SyncErrors, now \in NowChoices, jitter \in JitterChoices :
             inv' = [inv EXCEPT ![p] = TomOnError(Fault([@ EXCEPT !.refCalls = @ + 1]), e, now, jitter)]
        /\ UNCHANGED tagRefs
  /\ UNCHANGED << variant, retryVars, tagVars, syncVarsButInv, tagObjects >>

\* (variant: after the sleep only the reference creation is repeated)
TomWakeAtReference(p) ==
  /\ inv[p].pc = "tom.sleep"
  /\ inv' = [inv EXCEPT ![p] =
               IF inv[p].attempt + 1 <= DefaultMaxAttempts
               THEN [@ EXCEPT !.pc = IF inv[p].tagSha = 0 THEN "tom.createTag" ELSE "tom.createRef",
                              !.attempt = @ + 1]
               ELSE TomThrown(@, "Should not reach here")]
  /\ UNCHANGED << variant, retryVars, tagVars, syncVarsButInv, tomVars >>

\* The sleep of retryWithBackoff ends: attempt++, and the operation again from
\* git.createTag.
TomWake(p) ==
  /\ inv[p].pc = "tom.sleep"
  /\ inv' = [inv EXCEPT ![p] =
               IF inv[p].attempt + 1 <= DefaultMaxAttempts
               THEN [@ EXCEPT !.pc = "tom.createTag", !.attempt = @ + 1]
               ELSE TomThrown(@, "Should not reach here")]
  /\ UNCHANGED << variant, retryVars, tagVars, syncVarsButInv, tomVars >>

\* The process of the run exits.
TomExit(p) ==
  /\ inv[p].pc \in TomTerminal
  /\ inv' = [inv EXCEPT ![p] = TomExited]
  /\ UNCHANGED << variant, retryVars, tagVars, syncVarsButInv, tomVars >>

TomNext ==
  \E p \in Procs :
    TomBegin(p) \/ TomCreateTag(p) \/ TomCreateRef(p) \/ TomWake(p) \/ TomExit(p)

SpecOnMerge == TomInit /\ [][TomNext]_vars

(***************************************************************************)
(* Properties of the retry controllers (checked under SpecRetry)            *)
(***************************************************************************)

\* Kinds of error, stated without reference to either controller's test.
HasRateLimitStatus(e) == e.hasResponse /\ e.status \in {403, 429}
HasRateLimitMessage(e) == e.isError /\ e.rateMsg
\* A rate-limit response of the API: status 403/429 with a rate-limit message.
IsRateLimitError(e) == HasRateLimitStatus(e) /\ HasRateLimitMessage(e)
\* Neither sign of rate limiting, e.g. 404.
IsNonTransient(e) == ~HasRateLimitStatus(e) /\ ~HasRateLimitMessage(e)
\* 401, 403 without any rate-limit signal, 404, 422.
IsRemoteRefusal(e) ==
  /\ e.hasResponse
  /\ \/ e.status \in {401, 404, 422}
     \/ e.status = 403 /\ ~e.rateMsg /\ e.remaining # 0 /\ e.retryAfter = Absent

FailedWith(i, P(_)) == i \in 1..Len(hist) /\ ~hist[i].ok /\ P(hist[i].err)
\* After the failure of invocation i the controller slept and goes on to invoke again.
RetriedAfter(i) == Len(hist) > i \/ ctl \in {"sleeping", "loop"}
\* The failure of invocation i ended the call with that very error.
SurfacedAt(i) == Len(hist) = i /\ ctl = "threw" /\ out.thrown = Rethrow(hist[i].err)

AllRateLimited == \A i \in 1..Len(hist) : FailedWith(i, IsRateLimitError)

\* C1: with maxAttempts >= 1 and an operation that fails with a rate-limit error
\* on every invocation, the controller invokes it exactly maxAttempts times and
\* then throws: never more invocations, and no throw after fewer.
C1_RetryCap ==
  (maxAttempts >= 1 /\ AllRateLimited) =>
    /\ calls = Len(hist) /\ calls <= maxAttempts
    /\ ctl # "returned"
    /\ (ctl = "threw") <=> (calls = maxAttempts)

C1_Witness ==
  ctl = "threw" /\ AllRateLimited /\ maxAttempts >= 2 /\ calls = maxAttempts

\* C2: if the first k-1 invocations fail with rate-limit errors and the k-th
\* succeeds (1 <= k <= maxAttempts), the call returns the k-th invocation's
\* result after exactly k invocations; for k = 1 nothing was slept.
C2_SuccessAtK ==
  \A k \in 1..Len(hist) :
    (k <= maxAttempts /\ hist[k].ok /\ \A i \in 1..(k - 1) : FailedWith(i, IsRateLimitError)) =>
      /\ ctl = "returned" /\ out.kind = "returned" /\ out.value = hist[k].value
      /\ calls = k /\ Len(hist) = k
      /\ (k = 1 => sleeps = 0)

C2_Witness ==
  /\ ctl = "returned" /\ calls >= 2 /\ hist[Len(hist)].ok
  /\ \A i \in 1..(Len(hist) - 1) : FailedWith(i, IsRateLimitError)

\* C3: a non-transient error (e.g. 404) ends the call with that error and no
\* further invocation; raised by the first invocation it is propagated after
\* exactly one invocation and no sleep, whatever maxAttempts is.
C3_NonTransientPropagates ==
  \A i \in 1..Len(hist) :
    FailedWith(i, IsNonTransient) =>
      /\ SurfacedAt(i)
      /\ (i = 1 => calls = 1 /\ sleeps = 0)

C3_Witness ==
  /\ maxAttempts >= 2 /\ Len(hist) = 1 /\ hist[1] = Failure(ErrNotFound)
  /\ ctl = "threw" /\ calls = 1 /\ sleeps = 0

\* C4 as stated: status 403/429 alone, and a rate-limit message alone, each
\* make the controller sleep and invoke again while attempt < maxAttempts.
C4_EitherMarkerRetries ==
  \A i \in 1..Len(hist) :
    (i < maxAttempts /\ ~hist[i].ok
       /\ (HasRateLimitStatus(hist[i].err) \/ HasRateLimitMessage(hist[i].err))) =>
      RetriedAfter(i)

\* C4 amended: retryWithGitHubRateLimit retries exactly the errors with status
\* 403/429 (the message is not inspected), retryWithBackoff exactly the Errors
\* whose message contains "rate limit" (the status is not inspected); while
\* attempt < maxAttempts the controller's own condition is sufficient to sleep
\* and invoke again, and without it the error is rethrown.
C4_OwnMarkerRetries ==
  \A i \in 1..Len(hist) :
    (i < maxAttempts /\ ~hist[i].ok) =>
      LET own == IF variant = GitHubRateLimit THEN HasRateLimitStatus(hist[i].err)
                 ELSE HasRateLimitMessage(hist[i].err)
      IN IF own THEN RetriedAfter(i) /\ sleeps >= i ELSE SurfacedAt(i)

C4_Witness ==
  /\ ctl = "sleeping" /\ Len(hist) = 1
  /\ \/ variant = GitHubRateLimit /\ hist[1] = Failure(ErrTooManyNoMsg)
     \/ variant = Backoff /\ hist[1] = Failure(ErrMsgOnly)

\* C5: an authentication/authorization failure (401, or 403 that is not a rate
\* limit), a not-found error and a validation error are never retried: the
\* error is surfaced at once, after a single invocation when it is the first.
C5_RemoteRefusalNotRetried ==
  \A i \in 1..Len(hist) :
    FailedWith(i, IsRemoteRefusal) =>
      /\ SurfacedAt(i)
      /\ (i = 1 => calls = 1 /\ sleeps = 0)

IsPrimaryLimit(err) == err.hasResponse /\ err.remaining = 0 /\ err.reset \notin { Absent, 0 }

\* D: the time from the catch until the reset, in ms.
UntilReset(err, now) == err.reset * 1000 - now

\* C20: when retryWithGitHubRateLimit sleeps after a primary rate-limit
\* response whose reset lies D >= 0 ms ahead, the delay is at least D and
\* less than D + 1000; for D = 30 s it lies in [30000, 31000).
C20_PrimaryDelayBounds ==
  (/\ variant = GitHubRateLimit /\ sleeps >= 1
   /\ IsPrimaryLimit(slept.err) /\ UntilReset(slept.err, slept.now) >= 0)
    => /\ slept.delay >= UntilReset(slept.err, slept.now)
       /\ slept.delay < UntilReset(slept.err, slept.now) + 1000
       /\ UntilReset(slept.err, slept.now) = 30000 =>
             slept.delay >= 30000 /\ slept.delay < 31000

\* A sleep after a primary rate-limit response with the reset 30 s ahead and
\* the largest jitter.
C20_Witness ==
  /\ variant = GitHubRateLimit /\ sleeps >= 1 /\ IsPrimaryLimit(slept.err)
  /\ UntilReset(slept.err, slept.now) = 30000 /\ slept.delay = 30999

\* C21: when the response does not report zero remaining requests together
\* with a reset time, and carries retry-after: R, the sleep of
\* retryWithGitHubRateLimit lies in [R * 1000, R * 1000 + 1000).
\* Violated: a response without x-ratelimit-remaining is read as remaining 0,
\* so with a reset time the reset-based delay is taken and retry-after ignored.
C21_RetryAfterHonoured ==
  (/\ variant = GitHubRateLimit /\ sleeps >= 1
   /\ ~IsPrimaryLimit(slept.err) /\ slept.err.retryAfter # Absent)
    => /\ slept.delay >= slept.err.retryAfter * 1000
       /\ slept.delay < slept.err.retryAfter * 1000 + 1000

\* The delay of the most recent sleep before the jitter was added.
BaseOfSleep == slept.delay - slept.jitter

\* C22: when the response carries neither a primary-limit signal (zero
\* remaining requests reported with a reset time) nor retry-after, the delay
\* before jitter is max(60000, baseDelay * 2^(attempt-1)) in
\* retryWithGitHubRateLimit and baseDelay * 2^(attempt-1) in retryWithBackoff.
\* Violated in retryWithGitHubRateLimit: a response with a reset time and no
\* remaining count is taken for a primary limit and sleeps until the reset.
C22_ExponentialBackoff ==
  (sleeps >= 1 /\ ~IsPrimaryLimit(slept.err) /\ slept.err.retryAfter = Absent)
    => BaseOfSleep = IF variant = GitHubRateLimit
                     THEN Max(60000, baseDelay * 2^(slept.attempt - 1))
                     ELSE baseDelay * 2^(slept.attempt - 1)

\* The delay the controller computes for the most recent sleep, before the
\* clamp and the jitter.
ComputedDelay ==
  IF variant = GitHubRateLimit
  THEN DelayGitHub(slept.err, slept.attempt, baseDelay, slept.now)
  ELSE DelayBackoff(slept.attempt, baseDelay)

\* C23: every delay slept is max(computed delay, 0) plus a jitter in
\* [0, 1000) and is never negative; a delay computed from a reset time that
\* lies in the past gives a sleep in [0, 1000).
C23_ClampedPlusJitter ==
  sleeps >= 1 =>
    /\ slept.jitter >= 0 /\ slept.jitter < 1000
    /\ slept.delay = (IF ComputedDelay >= 0 THEN ComputedDelay ELSE 0) + slept.jitter
    /\ slept.delay >= 0
    /\ ComputedDelay < 0 => slept.delay >= 0 /\ slept.delay < 1000

\* A sleep after a primary rate-limit response whose reset time lies 5 s in
\* the past: the computed delay is negative, the sleep is the jitter.
C23_Witness ==
  /\ variant = GitHubRateLimit /\ sleeps >= 1 /\ IsPrimaryLimit(slept.err)
  /\ UntilReset(slept.err, slept.now) = -5000 /\ ComputedDelay = -5000
  /\ slept.delay = 999

\* The call of the controller ended in one of its three regular ways: the
\* operation's result, a non-transient error, or exhausted retries.
EndedRegularly == ctl \in { "returned", "threw" } /\ out.thrown # ShouldNotReach

\* Whether the call ended because the attempts were used up.
EndedExhausted ==
  /\ ctl = "threw" /\ calls = maxAttempts /\ calls >= 1
  /\ ~hist[calls].ok /\ HasRateLimitStatus(hist[calls].err) /\ HasRateLimitMessage(hist[calls].err)

\* C37: in one call of a retry controller one sleep lies between any two
\* consecutive invocations of the operation and none follows the last one:
\* before each invocation and during each sleep the sleeps started equal the
\* invocations made, and when the call has ended, in success, in a
\* non-transient error or in exhausted retries, they are one fewer.
C37_SleepsBetweenInvocations ==
  /\ calls = Len(hist)
  /\ ctl = "loop" => sleeps = calls /\ attempt = calls + 1
  /\ ctl = "sleeping" => sleeps = calls /\ attempt = calls
  /\ EndedRegularly => calls >= 1 /\ sleeps = calls - 1 /\ attempt = calls

\* A call ended in exhausted retries after three invocations and two sleeps.
C37_Witness ==
  /\ EndedRegularly /\ EndedExhausted
  /\ calls = 3 /\ sleeps = 2

RECURSIVE PreBelow(_, _)
PreBelow(p, q) ==
  IF Len(p) = 0 THEN Len(q) > 0
  ELSE IF Len(q) = 0 THEN FALSE
  ELSE LET pn == \A i \in 1..Len(p[1]) : IsDigit(p[1][i])
           qn == \A i \in 1..Len(q[1]) : IsDigit(q[1][i])
       IN IF p[1] = q[1] THEN PreBelow(Tail(p), Tail(q))
          ELSE IF pn /\ qn THEN StrToNat(p[1]) < StrToNat(q[1])
          ELSE IF pn # qn THEN pn
          ELSE StrLess(p[1], q[1])

Below(x, y) ==
  \/ x.major < y.major
  \/ x.major = y.major /\ x.minor < y.minor
  \/ x.major = y.major /\ x.minor = y.minor /\ x.patch < y.patch
  \/ /\ x.major = y.major /\ x.minor = y.minor /\ x.patch = y.patch
     /\ \/ Len(x.prerelease) > 0 /\ Len(y.prerelease) = 0
        \/ Len(x.prerelease) > 0 /\ Len(y.prerelease) > 0 /\ PreBelow(x.prerelease, y.prerelease)

IsSemverName(t) == SemverClean(t) # Null
VersionOf(t) == SemVerParse(SemverClean(t))

\* C10: when at least one tag name is semver-valid, the resolver returns the
\* original name of a valid tag that no valid tag exceeds in semver precedence,
\* and the names that do not parse have no influence on the result.
C10_LatestIsMaximum ==
  (tagsDone /\ \E t \in Range(tagNames) : IsSemverName(t)) =>
    /\ resolved \in Range(tagNames)
    /\ IsSemverName(resolved)
    /\ \A t \in Range(tagNames) : IsSemverName(t) => ~Below(VersionOf(resolved), VersionOf(t))
    /\ resolved = LatestOf(SelectSeq(tagNames, IsSemverName))

C10_Witness ==
  /\ tagsDone /\ Len(tagNames) = 3
  /\ Tag_not_a_tag \in Range(tagNames) /\ Tag_2_0_0_rc1 \in Range(tagNames)
  /\ resolved = Tag_2_0_0

\* C11 as stated: for the names {v1.2.3, 2.0.0-rc.1, not-a-tag, v1.2.10} the
\* resolver returns v1.2.10.  Violated: 2.0.0-rc.1 is a valid version of a
\* higher major and is what the resolver returns.
C11_FourNamesGive_v1_2_10 ==
  (tagsDone /\ Range(tagNames) = { Tag_v1_2_3, Tag_2_0_0_rc1, Tag_not_a_tag, Tag_v1_2_10 }) =>
    resolved = << "v", "1", ".", "2", ".", "1", "0" >>

\* C11, corrected: for the names {v1.2.3, 2.0.0-rc.1, not-a-tag, v1.2.10}, in any
\* order, the resolver returns 2.0.0-rc.1; without 2.0.0-rc.1 it returns
\* v1.2.10 (patch 10 above patch 3, compared as numbers); not-a-tag is dropped
\* and the resolver returns a name, never an error.
C11_FourNamesGivePrerelease ==
  /\ (tagsDone /\ Range(tagNames) = { Tag_v1_2_3, Tag_2_0_0_rc1, Tag_not_a_tag, Tag_v1_2_10 }) =>
       resolved = << "2", ".", "0", ".", "0", "-", "r", "c", ".", "1" >>
  /\ (tagsDone /\ Range(tagNames) = { Tag_v1_2_3, Tag_not_a_tag, Tag_v1_2_10 }) =>
       resolved = << "v", "1", ".", "2", ".", "1", "0" >>

C11_Witness ==
  /\ tagsDone
  /\ tagNames = << Tag_v1_2_3, Tag_2_0_0_rc1, Tag_not_a_tag, Tag_v1_2_10 >>
  /\ resolved = Tag_2_0_0_rc1

(***************************************************************************)
(* Properties of the sync run (checked under Spec)                          *)
(***************************************************************************)

\* s.includes(sub)
Includes(s, sub) == \E i \in 1..(Len(s) - Len(sub) + 1) : SubSeq(s, i, i + Len(sub) - 1) = sub

Str_sync == << "s", "y", "n", "c" >>
Str_sync_upstream_v1_1_0 ==
  << "s", "y", "n", "c", "/", "u", "p", "s", "t", "r", "e", "a", "m", "-", "v", "1", ".", "1", ".", "0" >>
Str_sync_upstream_v1_0_0 ==
  << "s", "y", "n", "c", "/", "u", "p", "s", "t", "r", "e", "a", "m", "-", "v", "1", ".", "0", ".", "0" >>
Str_v1_1_0 == << "v", "1", ".", "1", ".", "0" >>
Str_v1_0_0 == << "v", "1", ".", "0", ".", "0" >>

\* The invocation has done nothing to the target repository or the checkout.
NoSideEffects(r) ==
  r.gitCmds = 0 /\ r.pushes = 0 /\ r.prRequests = 0 /\ r.prCreated = 0 /\ r.labelCalls = 0

\* C7: if the target repository holds a pull request (open, closed or merged)
\* labelled sync/upstream-<latest tag> when the already-processed check is
\* answered, the invocation runs no git command, pushes no branch, requests no
\* pull request, attaches no label, and the only way it ends is successfully
\* (SKIPPED).  The version with retryWithGitHubRateLimit violates this: its
\* query asks for one item, the newest one carrying the label, and an issue
\* that carries the label hides an older pull request.
C7_LabelledPullRequestSkips ==
  \A p \in Procs :
    inv[p].prAtCheck =>
      /\ NoSideEffects(inv[p])
      /\ inv[p].pc \in Terminal => inv[p].pc = "SKIPPED"

\* C8 as stated: once an invocation ended LABELED for tag T, a later invocation
\* that resolves T ends SKIPPED and creates no branch and no pull request,
\* whatever was done to the pull request or the branch in between.  Violated:
\* when the label query of the later invocation fails, it ends FAILED.
C8_LaterRunsEndSkipped ==
  \A p \in Procs :
    inv[p].latestTag \in inv[p].seen =>
      /\ inv[p].pushes = 0 /\ inv[p].prCreated = 0
      /\ inv[p].pc \in Terminal => inv[p].pc = "SKIPPED"

\* C8, corrected: once an invocation ended LABELED for tag T, a later invocation
\* that resolves T never gets past the already-processed check: it runs no git
\* command, pushes no branch and requests no pull request, and it ends SKIPPED
\* when the label query is answered, FAILED when the query fails; this holds
\* whether the pull request was closed or merged and whether the branch was
\* deleted in between.  A process that has exited keeps nothing.
C8_LaterRunsStopAtCheck ==
  \A p \in Procs :
    /\ inv[p].pc = "exited" => inv[p] = Exited
    /\ inv[p].latestTag \in inv[p].seen =>
         /\ NoSideEffects(inv[p])
         /\ \/ inv[p].pc = "checkExistingSync"
            \/ inv[p].pc = "retrySleep" /\ inv[p].resume = "checkExistingSync"
            \/ inv[p].pc = "SKIPPED" /\ inv[p].checks >= 1 /\ inv[p].failed = 0
            \/ inv[p].pc = "FAILED" /\ inv[p].faults >= 1 /\ inv[p].failed = 1

\* A later invocation was skipped for a tag labelled by an earlier one, after
\* the pull request of that tag was merged and its branch deleted.
C8_Witness ==
  \E p \in Procs :
    /\ inv[p].pc = "SKIPPED"
    /\ inv[p].latestTag \in inv[p].seen
    /\ BranchNameOf(inv[p].latestTag) \notin branches
    /\ \E k \in 1..Len(items) :
         /\ items[k].by # 0 /\ items[k].by # p
         /\ items[k].merged
         /\ SyncLabelOf(inv[p].latestTag) \in items[k].labels

\* The items of the target repository that invocation p did not create carry no
\* sync label.
NoSyncLabelsBefore(p) ==
  \A k \in 1..Len(items) :
    items[k].by # p => \A l \in items[k].labels : ~StartsWith(l, Str_sync)

\* Invocation p ended with its pull request labelled and no call of it failed,
\* on upstream tags [v1.0.0, v1.1.0] and a target without sync labels.
C9_Scenario(p) ==
  /\ Flatten(upstream) = << Str_v1_0_0, Str_v1_1_0 >>
  /\ NoSyncLabelsBefore(p)
  /\ inv[p].pc = "LABELED"
  /\ inv[p].faults = 0

\* C9: given upstream tags [v1.0.0, v1.1.0] and a target repository without
\* sync labels, a failure-free invocation leaves exactly one pull request of its
\* own: the title references v1.1.0, the head is sync/upstream-v1.1.0, the
\* labels include sync and sync/upstream-v1.1.0; the one branch it pushed is
\* sync/upstream-v1.1.0, and nothing exists for v1.0.0.
C9_EndToEnd ==
  \A p \in Procs :
    C9_Scenario(p) =>
      /\ Cardinality({ k \in 1..Len(items) : items[k].by = p }) = 1
      /\ inv[p].prRequests = 1 /\ inv[p].prCreated = 1 /\ inv[p].pushes = 1
      /\ \A k \in 1..Len(items) :
           items[k].by = p =>
             /\ items[k].pr
             /\ Includes(items[k].title, Str_v1_1_0)
             /\ items[k].head = Str_sync_upstream_v1_1_0
             /\ { Str_sync, Str_sync_upstream_v1_1_0 } \subseteq items[k].labels
      /\ Str_sync_upstream_v1_1_0 \in branches
      /\ Str_sync_upstream_v1_0_0 \notin branches
      /\ \A k \in 1..Len(items) :
           /\ items[k].head # Str_sync_upstream_v1_0_0
           /\ ~Includes(items[k].title, Str_v1_0_0)

C9_Witness ==
  \E p \in Procs :
    /\ C9_Scenario(p)
    /\ \E k \in 1..Len(items) : items[k].by = p /\ items[k].state = "open"
    /\ Len(upstream) = 2

\* The upstream repository has no tag, or none that is a semantic version.
NoValidUpstreamTag == \A t \in Range(Flatten(upstream)) : ~IsSemverName(t)

\* The invocation is still before the end of getLatestTag, or ended.
AtOrBeforeListing(r) ==
  \/ r.pc \in { "idle", "listTags", "pageDelay", "exited" }
  \/ r.pc = "retrySleep" /\ r.resume = "listTags"
  \/ r.pc \in { "NOTHING", "FAILED" }

C12_NothingToDo ==
  \A p \in Procs :
    NoValidUpstreamTag =>
      /\ AtOrBeforeListing(inv[p])
      /\ inv[p].latestTag = Null
      /\ inv[p].checks = 0
      /\ NoSideEffects(inv[p])
      /\ inv[p].pc = "NOTHING" => inv[p].failed = 0

\* The step that ends getLatestTag (the pause after the last page) takes the
\* invocation to the successful end, not to the top-level catch.
C12_ResolverReturns ==
  \A p \in Procs :
    (NoValidUpstreamTag /\ inv[p].pc = "pageDelay" /\ inv[p].page = NumPages /\ inv'[p] # inv[p]) =>
      inv'[p].pc = "NOTHING" /\ inv'[p].failed = 0

C13_TrueIffLabelled ==
  \A p \in Procs :
    inv[p].syncExists # "undefined" => (inv[p].syncExists = "true" <=> inv[p].labelAtCheck)

\* C15 as stated: one invocation creates at most one pull request and issues
\* the creation request at most once, whatever transient errors occur.
\* Violated: the controller wraps pulls.create and addLabels together, so a
\* rate-limit answer to either call makes it issue pulls.create again.
C15_RequestedAtMostOnce ==
  \A p \in Procs : inv[p].prCreated <= 1 /\ inv[p].prRequests <= 1

\* C15, corrected: one invocation creates at most one pull request; it issues
\* the creation request once, plus once more for each retried failure, never
\* more often than the controller's maxAttempts.
C15_AtMostOnePullRequest ==
  \A p \in Procs :
    /\ inv[p].prCreated <= 1
    /\ Cardinality({ k \in 1..Len(items) : items[k].by = p }) <= 1
    /\ inv[p].prRequests <= inv[p].faults + 1
    /\ inv[p].prRequests <= DefaultMaxAttempts

\* The label call got a rate-limit answer after the pull request was created,
\* and the creation request went out a second time.
C15_Witness ==
  \E p \in Procs :
    /\ inv[p].prRequests = 2 /\ inv[p].prCreated = 1 /\ inv[p].labelCalls = 1
    /\ \E k \in 1..Len(items) : items[k].by = p /\ items[k].labels = {}

\* The pull request the invocation created, as the repository holds it.
OwnPullRequest(p) ==
  { k \in 1..Len(items) : items[k].by = p /\ items[k].number = inv[p].prNumber }

\* A label call of the invocation was rejected: calls made, none succeeded.
LabelCallFailed(p) ==
  /\ inv[p].labelCalls >= 1
  /\ inv[p].pc \notin { "LABELED", "addLabels" }

\* C16: labels are attached in a call of their own, made only after a
\* successful pulls.create (the pull request exists and is still unlabelled
\* when the label call is due); when the label call fails the pull request
\* of the invocation still exists without labels, and the run's only
\* terminal outcome is FAILED.
C16_LabelsAfterCreation ==
  \A p \in Procs :
    /\ inv[p].labelCalls <= inv[p].prCreated
    /\ inv[p].pc = "addLabels" =>
          /\ inv[p].prCreated = 1 /\ inv[p].labelCalls = 0
          /\ \E k \in OwnPullRequest(p) : items[k].pr /\ items[k].labels = {}
    /\ inv[p].pc = "LABELED" =>
          /\ inv[p].labelCalls = 1
          /\ \E k \in OwnPullRequest(p) : items[k].labels = PrLabelsOf(inv[p].latestTag)
    /\ LabelCallFailed(p) =>
          /\ \E k \in OwnPullRequest(p) : items[k].pr /\ items[k].labels = {}
          /\ inv[p].pc \in { "retrySleep", "pullsCreate", "FAILED" }
          /\ inv[p].pc \in Terminal => inv[p].pc = "FAILED" /\ inv[p].failed = 1

\* A run ended in FAILED after its label call was rejected; its pull request
\* is in the repository without labels.
C16_Witness ==
  \E p \in Procs :
    /\ inv[p].pc = "FAILED" /\ inv[p].labelCalls = 1 /\ inv[p].prCreated = 1
    /\ \E k \in OwnPullRequest(p) : items[k].pr /\ items[k].labels = {}

\* Remote calls and git commands the invocation has issued after the listing.
CallsIssued(r) == r.checks + r.gitCmds + r.prRequests + r.labelCalls

\* The steps of one invocation in the order of run().
C17_InOrder ==
  \A p \in Procs :
    /\ inv[p].pc = "listTags" => CallsIssued(inv[p]) = 0
    /\ inv[p].checks >= 1 => inv[p].latestTag # Null
    /\ inv[p].pc = "checkExistingSync" => inv[p].gitCmds = 0 /\ inv[p].prRequests = 0
    /\ inv[p].gitCmds >= 1 => inv[p].checks >= 1 /\ inv[p].syncExists = "false"
    /\ inv[p].pushes >= 1 => inv[p].syncExists = "false" /\ inv[p].gitCmds = Len(GitCommands)
    /\ inv[p].pc \in { "getDefaultBranch", "git" } => inv[p].prRequests = 0
    /\ inv[p].prRequests >= 1 =>
          /\ inv[p].pushes = 1
          /\ BranchNameOf(inv[p].latestTag) \in branches
    /\ inv[p].labelCalls >= 1 => inv[p].prRequests >= 1

\* One step of an invocation issues at most one call or command, and the
\* listing advances by at most one page.
C17_OneAtATime ==
  \A p \in Procs :
    /\ CallsIssued(inv'[p]) <= CallsIssued(inv[p]) + 1
    /\ inv'[p].page <= inv[p].page + 1
    /\ inv[p].pc = "listTags" /\ inv'[p].pc = "listTags" => CallsIssued(inv'[p]) = 0

\* C17: within one invocation the check starts only after the tag is
\* resolved, the push happens only after the check returned false, the pull
\* request is requested only after the push succeeded, and every step issues
\* at most one remote call or git command.
C17_StrictlySequential == []C17_InOrder /\ [][C17_OneAtATime]_vars

\* A run went through all steps: tag resolved, check false, all git commands,
\* push, pull request, labels.
C17_Witness ==
  \E p \in Procs :
    /\ inv[p].pc = "LABELED" /\ inv[p].syncExists = "false"
    /\ inv[p].checks >= 1 /\ inv[p].gitCmds = Len(GitCommands) /\ inv[p].pushes = 1
    /\ inv[p].prRequests = 1 /\ inv[p].labelCalls = 1

(***************************************************************************)
(* Properties of overlapping runs (checked under SpecConcurrent)            *)
(***************************************************************************)

\* The invocation passed the already-processed check for tag t, pushed the
\* branch and requested a pull request.
PublishedFor(r, t) ==
  r.latestTag = t /\ r.syncExists = "false" /\ r.pushes >= 1 /\ r.prRequests >= 1

\* C14, the serialized half: an invocation that starts after another one has
\* finished labelling its latest tag T does not pass the already-processed
\* check, so two invocations that both passed the check, pushed and requested
\* a pull request for T were running at the same time, neither started after
\* the other had labelled T.
C14_DuplicateOnlyWhenOverlapping ==
  /\ \A q \in Procs : inv[q].latestTag \in inv[q].seen => inv[q].syncExists # "false"
  /\ \A p, q \in Procs :
       (p # q /\ inv[p].latestTag # Null /\ PublishedFor(inv[p], inv[p].latestTag)
              /\ PublishedFor(inv[q], inv[p].latestTag)) =>
         inv[p].latestTag \notin inv[p].seen \cup inv[q].seen

\* C14, the concurrent half: both invocations passed the check before either
\* attached the label, and both pushed the branch and requested a pull request
\* for the same tag.
C14_Witness ==
  \E p, q \in Procs :
    /\ p # q /\ inv[p].latestTag # Null
    /\ PublishedFor(inv[p], inv[p].latestTag) /\ PublishedFor(inv[q], inv[p].latestTag)
    /\ inv[p].labelCalls = 0 /\ inv[q].labelCalls = 0
    /\ labeledTags = {}

(***************************************************************************)
(* Termination (checked under SpecLive)                                    *)
(***************************************************************************)

Running(p) == inv[p].pc \notin { "idle", "exited" } \cup Terminal

\* Once a terminal outcome is reached the invocation keeps it, issuing
\* nothing, until its process exits.
StaysEnded ==
  \A p \in Procs : inv[p].pc \in Terminal => inv'[p] \in { inv[p], Exited }

\* C18: every started invocation reaches a terminal outcome (NOTHING, SKIPPED,
\* LABELED or FAILED) when every call, command and sleep returns; it reaches
\* one outcome only and issues no call or command afterwards.
C18_EndsInOneOutcome ==
  /\ \A p \in Procs : Running(p) ~> inv[p].pc \in Terminal
  /\ [][StaysEnded]_vars

\* A run ended in FAILED because the controller gave up after the last of its
\* attempts was rejected with a rate-limit error.
C18_Witness ==
  \E p \in Procs :
    /\ inv[p].pc = "FAILED" /\ inv[p].checks = DefaultMaxAttempts
    /\ inv[p].faults = 0

(***************************************************************************)
(* Error propagation (checked under SpecBoundary)                          *)
(***************************************************************************)

\* Invocations of the merge-based version that have not exited.
MjsRuns == { p \in Procs : variant = MergeBased /\ inv[p].pc # "exited" }

\* C19 as stated: every error raised in a step reaches the boundary, which
\* reports failure once, and only the expected-empty endings carry no report.
\* Violated in the merge-based version: a failing git merge is caught inside
\* run() and the run goes on to commit, push and create the pull request.
C19_EveryErrorReachesBoundary ==
  \A p \in Procs :
    /\ inv[p].failed <= 1
    /\ inv[p].pc = "FAILED" <=> inv[p].failed = 1
    /\ p \in MjsRuns /\ inv[p].raised >= 1 => inv[p].pc = "FAILED"

\* Every error raised is reported except the failure of git merge in the
\* merge-based version, which sets hasConflicts instead.
ReportedOnce ==
  \A p \in Procs :
    /\ inv[p].failed <= 1
    /\ inv[p].pc = "FAILED" <=> inv[p].failed = 1
    /\ inv[p].pc \in Terminal \ { "FAILED" } => inv[p].failed = 0
    /\ p \in MjsRuns =>
          inv[p].raised = inv[p].failed + (IF inv[p].hasConflicts THEN 1 ELSE 0)

\* C19, corrected: an error that leaves run() is reported exactly once by the
\* boundary and ends the run in FAILED with no later step; every raised error
\* leaves run() except a failing git merge of the merge-based version, after
\* which the run continues; runs that end otherwise report no failure.
C19_ErrorsReachBoundaryExceptMerge == []ReportedOnce /\ [][StaysEnded]_vars

\* A run of the merge-based version whose merge failed went on, and a later
\* step failed: two errors raised, one reported.
C19_Witness ==
  \E p \in MjsRuns :
    /\ inv[p].hasConflicts /\ inv[p].pc = "FAILED"
    /\ inv[p].raised = 2 /\ inv[p].failed = 1 /\ inv[p].pushes = 1

(***************************************************************************)
(* Properties of the tag-on-merge action (checked under SpecOnMerge)       *)
(***************************************************************************)

Str_TagMessage123 == << "T", "a", "g", " ", "c", "r", "e", "a", "t", "e", "d", " ", "f", "r", "o", "m", " ", "s", "y", "n", "c", " ", "P", "R", " ", "1", "2", "3" >>
Str_refs_tags_v3_4_5 == << "r", "e", "f", "s", "/", "t", "a", "g", "s", "/", "v", "3", ".", "4", ".", "5" >>
Str_v3_4_5 == << "v", "3", ".", "4", ".", "5" >>
Str_sync_upstream_v3_4_5 == << "s", "y", "n", "c", "/", "u", "p", "s", "t", "r", "e", "a", "m", "-", "v", "3", ".", "4", ".", "5" >>

\* Runs of the tag-on-merge action that have started and not exited.
TomRuns == { p \in Procs : inv[p].pc \notin { "tom.idle", "exited" } }

\* The tag objects whose sha is the one the run got from its last createTag.
OwnTagObject(p) == { o \in tagObjects : o.sha = inv[p].tagSha }

\* C24: the run creates the tag object before the reference; a reference call
\* is made only after the createTag of the same attempt succeeded; the
\* reference refs/tags/T points at a tag object named T that targets the merge
\* commit S with a message naming the pull request; a failure-free run makes
\* exactly one call of each and ends TAGGED.
C24_TagObjectThenReference ==
  /\ \A p \in TomRuns :
        /\ inv[p].refCalls <= inv[p].tagsCreated
        /\ inv[p].refsCreated <= 1
        /\ inv[p].pc = "tom.createRef" =>
              /\ inv[p].refCalls < inv[p].tagsCreated
              /\ OwnTagObject(p) # {}
        /\ inv[p].pc = "TAGGED" =>
              /\ inv[p].payload.merged
              /\ inv[p].payload.head.ref = SyncPrefix \o inv[p].tagName
              /\ \E o \in OwnTagObject(p) :
                    /\ o.tag = inv[p].tagName /\ o.object = inv[p].payload.sha
                    /\ o.type = "commit" /\ o.message = Str_TagMessage123
                    /\ [ref |-> RefsTags \o inv[p].tagName, sha |-> o.sha] \in tagRefs
              /\ inv[p].faults = 0 => inv[p].tagCalls = 1 /\ inv[p].refCalls = 1
  /\ \A x \in tagRefs :
        x.sha # 0 => \E o \in tagObjects : o.sha = x.sha /\ x.ref = RefsTags \o o.tag

\* A failure-free run for the merged pull request 123 from sync/upstream-v3.4.5.
C24_Witness ==
  \E p \in TomRuns :
    /\ inv[p].pc = "TAGGED" /\ inv[p].faults = 0
    /\ inv[p].payload.head.ref = Str_sync_upstream_v3_4_5
    /\ \E o \in tagObjects :
          /\ o.tag = Str_v3_4_5 /\ o.object = CommitSha
          /\ [ref |-> Str_refs_tags_v3_4_5, sha |-> o.sha] \in tagRefs

Str_feature_unrelated == << "f", "e", "a", "t", "u", "r", "e", "/", "u", "n", "r", "e", "l", "a", "t", "e", "d" >>

\* A name git accepts for a tag or a branch holds no line terminator.
IsRefName(name) == \A i \in 1..Len(name) : name[i] \notin LineTerminators

\* branchName is "sync/upstream-" followed by at least one character.
HasSyncForm(branchName) ==
  StartsWith(branchName, SyncPrefix) /\ Len(branchName) > Len(SyncPrefix)

\* C25: for every non-empty tag name T the sync action's branch name and
\* label are the same string sync/upstream-T and extractTagFromBranch gives T
\* back; a run that got a tag name got it from a branch of that form, and a
\* branch name (or a missing one) not of that form extracts nothing.
C25_ExtractionInvertsNaming ==
  /\ \A t \in TagPool \cup { Tag_v3_4_5 } :
        /\ BranchNameOf(t) = SyncLabelOf(t)
        /\ BranchNameOf(t) = SyncPrefix \o t
        /\ ExtractTagFromBranch(BranchNameOf(t)) = t
  /\ ExtractTagFromBranch(Str_sync_upstream_v3_4_5) = Str_v3_4_5
  /\ ExtractTagFromBranch(Str_feature_unrelated) = Null
  /\ \A b \in BranchInputs :
        IF HasSyncForm(b) /\ IsRefName(b)
        THEN SyncPrefix \o ExtractTagFromBranch(b) = b
        ELSE ExtractTagFromBranch(b) = Null
  /\ \A p \in TomRuns :
        /\ inv[p].tagName # Null =>
              /\ inv[p].payload.head.hasRef
              /\ inv[p].payload.head.ref = BranchNameOf(inv[p].tagName)
              /\ inv[p].tagName # << >>
        /\ inv[p].outcome = "not a sync branch" =>
              \/ ~inv[p].payload.head.hasRef
              \/ ~HasSyncForm(inv[p].payload.head.ref)
              \/ ~IsRefName(inv[p].payload.head.ref)

\* A run extracted v3.4.5 from sync/upstream-v3.4.5 and is about to create the tag.
C25_Witness ==
  \E p \in TomRuns :
    /\ inv[p].pc = "tom.createTag" /\ inv[p].tagCalls = 0
    /\ inv[p].payload.head.ref = Str_sync_upstream_v3_4_5
    /\ inv[p].tagName = Str_v3_4_5

Str_my_sync_upstream_v1_1_0 == << "m", "y", "/", "s", "y", "n", "c", "/", "u", "p", "s", "t", "r", "e", "a", "m", "-", "v", "1", ".", "1", ".", "0" >>

\* The run of p was started on a merged pull request with the token supplied
\* and a head object: it got as far as the branch name.
ReadBranchName(p) ==
  /\ inv[p].pc \notin { "tom.idle", "exited" }
  /\ IsMergedPullRequest(inv[p].payload)
  /\ InputSupplied(inv[p].token)
  /\ ~inv[p].payload.head.isNull

\* The head branch of p's pull request is sync/upstream-<tag>.
FromSyncBranch(p) ==
  /\ inv[p].payload.head.hasRef
  /\ HasSyncForm(inv[p].payload.head.ref)
  /\ IsRefName(inv[p].payload.head.ref)

\* p issued no remote call and created nothing.
NoRemoteCall(p) ==
  /\ inv[p].tagCalls = 0 /\ inv[p].refCalls = 0
  /\ inv[p].tagsCreated = 0 /\ inv[p].refsCreated = 0
  /\ inv[p].sleeps = 0

\* C26: a run on a merged pull request whose head branch is not
\* sync/upstream-<tag> skips: it ends without a failure, issues no remote call
\* and creates neither a tag object nor a reference.
C26_NonSyncBranchSkips ==
  \A p \in TomRuns :
    ReadBranchName(p) /\ ~FromSyncBranch(p) =>
      /\ inv[p].pc = "SKIPPED"
      /\ inv[p].outcome = "not a sync branch"
      /\ inv[p].failed = 0
      /\ inv[p].tagName = Null
      /\ NoRemoteCall(p)

\* The merged pull request of feature/unrelated was skipped.
C26_Witness ==
  \E p \in TomRuns :
    /\ ReadBranchName(p)
    /\ inv[p].payload.head.ref = Str_feature_unrelated /\ inv[p].payload.head.hasRef
    /\ inv[p].pc = "SKIPPED" /\ inv[p].failed = 0

\* C27 as stated: a head branch that is not sync/upstream-<capture> makes the
\* run fail fatally, without a retry.
C27_NonSyncBranchFails ==
  \A p \in TomRuns :
    ReadBranchName(p) /\ ~FromSyncBranch(p) =>
      inv[p].pc = "FAILED" /\ inv[p].failed = 1 /\ inv[p].sleeps = 0

\* The run of p is inside createAndPushTag, or came out of it with the tag.
InTagCreation(p) == inv[p].pc \in { "tom.createTag", "tom.createRef", "tom.sleep", "TAGGED" }

\* C27: a head branch that is not sync/upstream-<capture> is no failure: run()
\* returns before the tag-creation path, which is entered only with a
\* captured, non-empty tag name; what run() throws there without a retry and
\* without a call is the null or empty merge commit SHA.
C27_NonSyncBranchNeverFails ==
  \A p \in TomRuns :
    /\ ReadBranchName(p) /\ ~FromSyncBranch(p) =>
          inv[p].failed = 0 /\ inv[p].pc \notin { "FAILED" } /\ ~InTagCreation(p)
    /\ InTagCreation(p) =>
          /\ ReadBranchName(p) /\ FromSyncBranch(p)
          /\ inv[p].tagName \notin { Null, << >> }
          /\ inv[p].payload.sha \notin { Null, << >> }
    /\ inv[p].outcome = "Merge commit SHA is undefined" =>
          /\ inv[p].pc = "FAILED" /\ inv[p].failed = 1
          /\ FromSyncBranch(p) /\ inv[p].payload.sha \in { Null, << >> }
          /\ NoRemoteCall(p)

\* The merged pull request of my/sync/upstream-v1.1.0 ended without a failure.
C27_Witness ==
  \E p \in TomRuns :
    /\ ReadBranchName(p)
    /\ inv[p].payload.head.ref = Str_my_sync_upstream_v1_1_0 /\ inv[p].payload.head.hasRef
    /\ inv[p].pc \in TomTerminal /\ inv[p].failed = 0

\* The run of p was started and has not exited.
TomStarted(p) == inv[p].pc \notin { "tom.idle", "exited" }

\* The payload of p is a record of a merged pull request from a sync branch,
\* with its number, whose merge commit SHA is missing or null.
MergedSyncPrWithoutSha(p) ==
  /\ inv[p].payload.kind = "object"
  /\ { "merged", "head", "number" } \subseteq inv[p].payload.keys
  /\ inv[p].payload.merged
  /\ ~inv[p].payload.head.isNull /\ FromSyncBranch(p)
  /\ inv[p].payload.number # Absent
  /\ \/ "merge_commit_sha" \notin inv[p].payload.keys
     \/ inv[p].payload.sha = Null

\* C28: a merged pull request from a sync branch whose merge commit SHA is
\* missing from the payload or null fails the run, with no retry, no tag
\* object and no reference.
C28_AbsentShaFails ==
  \A p \in TomRuns :
    TomStarted(p) /\ InputSupplied(inv[p].token) /\ MergedSyncPrWithoutSha(p) =>
      /\ inv[p].pc = "FAILED" /\ inv[p].failed = 1
      /\ NoRemoteCall(p)

\* The record of the pull request is not of the shape run() reads: not an
\* object, a key missing, head null or without ref, or number null.
Malformed(pr) ==
  \/ pr.kind # "object"
  \/ ~(PrKeys \subseteq pr.keys)
  \/ pr.head.isNull \/ ~pr.head.hasRef
  \/ pr.number = Absent

\* C29: with no pull-request record, a malformed one, or one that is not
\* merged, the run skips: it ends without a failure and without a remote call.
C29_NotAMergeEventSkips ==
  \A p \in TomRuns :
    /\ TomStarted(p) /\ InputSupplied(inv[p].token)
    /\ \/ inv[p].payload = NoPullRequest
       \/ Malformed(inv[p].payload)
       \/ ~inv[p].payload.merged
    => /\ inv[p].pc = "SKIPPED" /\ inv[p].failed = 0
       /\ NoRemoteCall(p)

\* Every reference call of a run follows a tag object created in the same
\* attempt, and the reference of a finished run points at the newest of them.
TagAndReferenceTogether ==
  \A p \in TomRuns :
    /\ inv[p].refsCreated <= 1
    /\ inv[p].refsCreated = 1 <=> inv[p].pc = "TAGGED"
    /\ inv[p].pc = "tom.createRef" => inv[p].tagsCreated = inv[p].refCalls + 1
    /\ inv[p].pc \in { "tom.createTag", "tom.sleep", "TAGGED" } =>
          inv[p].tagsCreated = inv[p].refCalls
    /\ inv[p].pc = "TAGGED" =>
          /\ [ref |-> TagRefOf(inv[p].tagName), sha |-> inv[p].tagSha] \in tagRefs
          /\ \A o \in tagObjects : o.sha <= inv[p].tagSha
          /\ Cardinality({ x \in tagRefs : x.ref = TagRefOf(inv[p].tagName) }) = 1

\* A step to the reference creation is a successful createTag that made a new
\* tag object, and the step that ends a sleep goes to createTag or to the end.
RetriedFromTagObject ==
  \A p \in Procs :
    /\ (inv'[p].pc = "tom.createRef" /\ inv[p].pc # "tom.createRef") =>
          /\ inv[p].pc = "tom.createTag"
          /\ inv'[p].tagsCreated = inv[p].tagsCreated + 1
          /\ \A o \in tagObjects : o.sha # inv'[p].tagSha
          /\ \E o \in tagObjects' : o.sha = inv'[p].tagSha
    /\ (inv[p].pc = "tom.createRef" /\ inv'[p].pc # "tom.createRef") =>
          inv'[p].pc \in { "TAGGED", "tom.sleep", "FAILED" }
    /\ (inv[p].pc = "tom.sleep" /\ inv'[p].pc # "tom.sleep") =>
          inv'[p].pc \in { "tom.createTag", "FAILED" }

\* C39: the tag object and the reference are retried as one unit: a run
\* creates refs/tags/T at most once, pointing at the tag object of the same
\* attempt, and after a transient failure of the reference creation the tag
\* object is created again before the reference is tried again.
C39_TagAndReferenceOneUnit == []TagAndReferenceTogether /\ [][RetriedFromTagObject]_vars

\* The first reference creation was rejected with a rate-limit error: the run
\* made two tag objects and its reference points at the second.
C39_Witness ==
  \E p \in TomRuns :
    /\ inv[p].pc = "TAGGED" /\ inv[p].faults = 1
    /\ inv[p].tagCalls = 2 /\ inv[p].tagsCreated = 2
    /\ inv[p].refCalls = 2 /\ inv[p].refsCreated = 1
    /\ inv[p].tagSha = 2 /\ Cardinality(tagObjects) = 2

(***************************************************************************)
(* Properties of the input handling of the sync action (checked under      *)
(* SpecBoundary)                                                           *)
(***************************************************************************)

Str_owner_name == << "o", "/", "r" >>

\* Input values that are missing or have no owner or no name part.
BadRepoInputs == { << >>, << "o" >>, << "/", "r" >>, << "o", "/" >> }

\* C30: a missing required input, or a target-repo or upstream-repo that is
\* not owner/name, fails the invocation before any remote call and any git
\* command: run() of the current version rejects every such input, and a run
\* of the merge-based version whose repository inputs have no owner or no
\* name part has issued no remote call and no git command.
C30_BadInputFailsBeforeAnyCall ==
  /\ \A bad \in BadRepoInputs :
        /\ ~InputsAccepted(bad, Str_owner_name, << "t" >>)
        /\ ~InputsAccepted(Str_owner_name, bad, << "t" >>)
  /\ ~InputsAccepted(Str_owner_name, Str_owner_name, << >>)
  /\ InputsAccepted(Str_owner_name, Str_owner_name, << "t" >>)
  /\ \A p \in MjsRuns :
        ~inv[p].upstreamOk \/ ~inv[p].targetOk =>
          /\ inv[p].calls = 0 /\ inv[p].gitCmds = 0
          /\ inv[p].pc \in { "mjs.listTags", "FAILED" }

(***************************************************************************)
(* Further properties of the sync run (checked under Spec)                 *)
(***************************************************************************)

\* No controller is active while git commands run: each command before the
\* current one was executed once, and a sleeping controller never resumes one.
GitOutsideController ==
  \A p \in Procs :
    /\ inv[p].pc = "git" =>
          /\ inv[p].attempt = 0
          /\ inv[p].gitCmds = inv[p].gitStep - 1
          /\ inv[p].prRequests = 0
    /\ inv[p].pc = "retrySleep" => inv[p].resume \in RemoteCalls
    /\ inv[p].gitCmds <= Len(GitCommands)

\* The step that leaves the git commands: the last command succeeded, or the
\* command just executed failed and the run is FAILED, reported once, with no
\* pull request requested and nothing changed in the target repository.
GitFailureEndsRun ==
  \A p \in Procs :
    inv[p].pc = "git" /\ inv'[p].pc # "git" =>
      \/ /\ inv'[p].pc = "pullsCreate"
         /\ inv[p].gitStep = Len(GitCommands)
      \/ /\ inv'[p].pc = "FAILED"
         /\ inv'[p].gitCmds = inv[p].gitCmds + 1
         /\ inv'[p].failed = inv[p].failed + 1
         /\ inv'[p].prRequests = 0 /\ inv'[p].prCreated = 0
         /\ items' = items /\ branches' = branches

\* C31: a failing git command (config, remote add, fetch, checkout, push) is
\* never retried: it was executed once, the run ends FAILED, and no pull
\* request is requested afterwards.
C31_GitFailureNotRetried ==
  /\ []GitOutsideController
  /\ [][GitFailureEndsRun]_vars
  /\ [][StaysEnded]_vars

\* The fetch of the upstream tag failed: four commands were executed, the run
\* is FAILED and requested no pull request.
C31_Witness ==
  \E p \in Procs :
    /\ inv[p].pc = "FAILED" /\ inv[p].failed = 1
    /\ inv[p].gitCmds = 4 /\ inv[p].faults = 0
    /\ inv[p].prRequests = 0 /\ inv[p].pushes = 0

\* The request of a page failed and the controller goes to sleep: the tags of
\* the pages fetched before are kept, so that those pages need not be
\* requested again.
FetchedPagesKept ==
  \A p \in Procs :
    inv[p].pc = "listTags" /\ inv'[p].pc = "retrySleep" =>
      inv'[p].resume = "listTags" /\ inv'[p].tags = inv[p].tags

\* The listing goes on to its next page: the fetch of that page starts with
\* attempt 1, whatever the pages before have used up.
PageStartsFresh ==
  \A p \in Procs :
    inv[p].pc = "pageDelay" /\ inv'[p].pc = "listTags" =>
      inv'[p].page = inv[p].page + 1 /\ inv'[p].attempt = 1

\* C34: each page fetch of the tag resolver is its own operation under the
\* retry controller: after a transient error at page k the pages 1..k-1 are
\* not fetched again, and every page has the whole budget of attempts.
C34_RetryPerPage == [][FetchedPagesKept /\ PageStartsFresh]_vars

(***************************************************************************)
(* Properties of the retry state of a run (checked under SpecLive)         *)
(***************************************************************************)

\* The outer operation a step of run() belongs to, "none" outside of them.
OuterOperation(r) ==
  CASE r.pc \in { "listTags", "pageDelay" } -> "listTags"
    [] r.pc \in { "pullsCreate", "addLabels" } -> "pullsCreate"
    [] r.pc \in { "checkExistingSync", "getDefaultBranch" } -> r.pc
    [] r.pc = "retrySleep" -> r.resume
    [] OTHER -> "none"

\* Inside an outer operation the attempt counter is within 1..maxAttempts.
AttemptInRange ==
  \A p \in Procs :
    OuterOperation(inv[p]) # "none" =>
      inv[p].attempt >= 1 /\ inv[p].attempt <= DefaultMaxAttempts

\* A step into another outer operation starts it at attempt 1; a step
\* inside an operation changes the counter only when a sleep ends, by one.
FreshPerOperation ==
  \A p \in Procs :
    /\ (OuterOperation(inv'[p]) # "none" /\ OuterOperation(inv'[p]) # OuterOperation(inv[p])) =>
          inv'[p].attempt = 1
    /\ (OuterOperation(inv'[p]) # "none" /\ OuterOperation(inv'[p]) = OuterOperation(inv[p])) =>
          inv'[p].attempt = inv[p].attempt
            + (IF inv[p].pc = "retrySleep" /\ inv'[p].pc # "retrySleep" THEN 1 ELSE 0)

\* C36: retry state is per outer operation: the attempt counter stays within
\* 1..maxAttempts, and each outer operation of a run starts at attempt 1,
\* whatever the operations before it have used up.
C36_RetryStatePerOperation == []AttemptInRange /\ [][FreshPerOperation]_vars

\* The tag listing was retried, and the already-processed check that follows
\* it is at its first attempt.
C36_Witness ==
  \E p \in Procs :
    /\ inv[p].pc = "checkExistingSync" /\ inv[p].attempt = 1
    /\ inv[p].faults = 1 /\ inv[p].checks = 0

(***************************************************************************)
(* Properties of the merge-based version (checked under SpecMerge)         *)
(***************************************************************************)

\* The pull requests in the target repository that run p created.
MjsOwnPullRequests(p) ==
  { k \in 1..Len(items) : items[k].pr /\ items[k].by = p /\ items[k].number = inv[p].prNumber }

\* C32: a failing merge does not end the run: once the commands and calls
\* after it succeeded the branch is pushed and one pull request exists whose
\* title starts with [Conflicts] and whose labels are sync/upstream-<tag> and
\* merge-conflicts; after a successful merge the title has no marker and the
\* only label is sync/upstream-<tag>.  No run creates more than one pull
\* request.
C32_ConflictsMarkedOnPullRequest ==
  \A p \in MjsRuns :
    /\ inv[p].prCreated <= 1 /\ inv[p].pushes <= 1
    /\ inv[p].pc = "mjs.conflict" => inv[p].hasConflicts /\ inv[p].failed = 0
    /\ inv[p].hasConflicts => inv[p].raised >= 1
    /\ inv[p].pc = "LABELED" =>
          /\ inv[p].prCreated = 1 /\ inv[p].pushes = 1 /\ inv[p].failed = 0
          /\ BranchNameOf(inv[p].latestTag) \in branches
          /\ Cardinality(MjsOwnPullRequests(p)) = 1
          /\ \A k \in MjsOwnPullRequests(p) :
                /\ items[k].head = BranchNameOf(inv[p].latestTag)
                /\ SyncLabelOf(inv[p].latestTag) \in items[k].labels
                /\ IF inv[p].hasConflicts
                   THEN /\ items[k].title = ConflictsMarker \o MjsTitlePrefix \o inv[p].latestTag
                        /\ items[k].labels = { SyncLabelOf(inv[p].latestTag), MergeConflictsLabel }
                   ELSE /\ items[k].title = MjsTitlePrefix \o inv[p].latestTag
                        /\ ~StartsWith(items[k].title, ConflictsMarker)
                        /\ items[k].labels = { SyncLabelOf(inv[p].latestTag) }

\* A run whose merge failed ended with its pull request marked and labelled.
C32_Witness ==
  \E p \in MjsRuns :
    /\ inv[p].pc = "LABELED" /\ inv[p].hasConflicts /\ inv[p].raised = 1
    /\ \E k \in MjsOwnPullRequests(p) :
          StartsWith(items[k].title, ConflictsMarker) /\ MergeConflictsLabel \in items[k].labels

(***************************************************************************)
(* The install-actionlint action (install-actionlint/src/index.ts)         *)
(***************************************************************************)

InstallActionlint == "install-actionlint"

\* Texts the fetch of the script URL can deliver: the script, another script,
\* and the body of an error response.
Script_ok == << "e", "c", "h", "o", " ", "o", "k" >>
Script_pwned == << "e", "c", "h", "o", " ", "p", "w", "n", "e", "d" >>
Script_404 == << "4", "0", "4", ":", " ", "N", "o", "t", " ", "F", "o", "u", "n", "d" >>
ScriptTexts == { Script_ok, Script_pwned, Script_404 }

Digest_ok ==
  << "7", "d", "1", "0", "f", "c", "e", "d", "9", "6", "b", "3", "8", "c", "8", "4",
     "f", "9", "0", "d", "b", "0", "7", "7", "0", "8", "f", "2", "6", "6", "e", "8",
     "3", "d", "a", "4", "8", "c", "a", "7", "6", "3", "1", "8", "9", "e", "a", "e",
     "d", "7", "f", "e", "1", "a", "0", "0", "3", "4", "8", "3", "8", "5", "e", "b" >>
Digest_pwned ==
  << "e", "2", "1", "6", "2", "b", "f", "0", "1", "f", "b", "9", "f", "4", "d", "9",
     "e", "8", "3", "4", "d", "7", "a", "7", "7", "8", "6", "c", "b", "2", "2", "e",
     "4", "4", "8", "3", "f", "2", "d", "d", "4", "7", "2", "c", "8", "7", "9", "8",
     "3", "0", "5", "7", "0", "1", "7", "7", "7", "5", "9", "2", "7", "8", "d", "8" >>
Digest_404 ==
  << "d", "5", "5", "5", "8", "c", "d", "4", "1", "9", "c", "8", "d", "4", "6", "b",
     "d", "c", "9", "5", "8", "0", "6", "4", "c", "b", "9", "7", "f", "9", "6", "3",
     "d", "1", "e", "a", "7", "9", "3", "8", "6", "6", "4", "1", "4", "c", "0", "2",
     "5", "9", "0", "6", "e", "c", "1", "5", "0", "3", "3", "5", "1", "2", "e", "d" >>

\* createHash("sha256").update(scriptText).digest("hex")
Sha256Hex(text) ==
  CASE text = Script_ok -> Digest_ok
    [] text = Script_pwned -> Digest_pwned
    [] text = Script_404 -> Digest_404

\* s.toUpperCase() on hexadecimal digits
UpperHex(s) ==
  [ i \in 1..Len(s) |->
      CASE s[i] = "a" -> "A" [] s[i] = "b" -> "B" [] s[i] = "c" -> "C"
        [] s[i] = "d" -> "D" [] s[i] = "e" -> "E" [] s[i] = "f" -> "F"
        [] OTHER -> s[i] ]

\* Values of the expected-hash input: not set, the digest of the script, the
\* same with blanks around it, in upper case, cut short, and other digests.
ExpectedHashInputs ==
  { << >>, Digest_ok, << " " >> \o Digest_ok \o << " " >>, UpperHex(Digest_ok),
    SubSeq(Digest_ok, 1, 8), Digest_pwned, Digest_404 }

\* Values of the actionlint-version input.
VersionInputs == { << >>, << "1", ".", "7", ".", "7" >>, << "l", "a", "t", "e", "s", "t" >> }

\* getInput(name, { required: true }): throws when the value is not set,
\* otherwise returns it trimmed
GetInputThrows(value) == value = << >>
GetInput(value) == Trim(value)

InstFresh ==
  [pc |-> "inst.idle", scriptText |-> Null, expectedHash |-> << >>, version |-> << >>,
   actualHash |-> << >>, dirs |-> 0, writes |-> 0, execs |-> 0, executedText |-> Null,
   removed |-> 0, reported |-> 0, outcome |-> "none"]

InstExited == [InstFresh EXCEPT !.pc = "exited"]

InstTerminal == { "INSTALLED", "FAILED" }

\* await main() rejects: the process ends with an error, nothing is reported
\* through setFailed.
InstRejected(r, why) == [r EXCEPT !.pc = "FAILED", !.outcome = why]

\* (variant: the comparison of the hashes is left out)
HashesEqualUnchecked(actualHash, expectedHash) == TRUE

\* !(actualHash !== expectedHash)
HashesEqual(actualHash, expectedHash) == actualHash = expectedHash

\* mkdtempSync, writeFileSync, execSync in try ... finally rmSync
InstRunScript(r, execOk) ==
  [r EXCEPT !.dirs = @ + 1, !.writes = @ + 1, !.execs = @ + 1,
            !.executedText = r.scriptText, !.removed = @ + 1,
            !.pc = IF execOk THEN "INSTALLED" ELSE "FAILED",
            !.outcome = IF execOk THEN "installed" ELSE "script failed"]

\* main() from the hash on: createHash, the two getInput calls, the
\* comparison, and either setFailed and return or the run of the script.
InstVerify(r, execOk) ==
  IF GetInputThrows(r.expectedHash) \/ GetInputThrows(r.version)
  THEN InstRejected(r, "Input required and not supplied")
  ELSE IF ~HashesEqual(r.actualHash, GetInput(r.expectedHash))
  THEN [r EXCEPT !.pc = "FAILED", !.reported = @ + 1, !.outcome = "Could not verify hash"]
  ELSE InstRunScript(r, execOk)

InstInit ==
  /\ variant = InstallActionlint
  /\ inv = [p \in Procs |-> InstFresh]
  /\ upstream = << >> /\ items = << >> /\ branches = {} /\ labeledTags = {}
  /\ RetryOff /\ TagsOff /\ TomOff

\* const scriptResponse = await fetch(scriptUrl): a response of any status,
\* or a rejection.
InstFetch(p) ==
  /\ inv[p].pc = "inst.idle"
  /\ \A q \in 1..(p - 1) : inv[q].pc = "exited"
  /\ \/ inv' = [inv EXCEPT ![p] = [@ EXCEPT !.pc = "inst.text"]]
     \/ inv' = [inv EXCEPT ![p] = InstRejected(@, "fetch failed")]
  /\ UNCHANGED << variant, retryVars, tagVars, syncVarsButInv, tomVars >>

\* const scriptText = await scriptResponse.text(), and the rest of main().
InstText(p) ==
  /\ inv[p].pc = "inst.text"
  /\ \/ \E text \in ScriptTexts, expectedHash \in ExpectedHashInputs, version \in VersionInputs,
           execOk \in BOOLEAN :
          inv' = [inv EXCEPT ![p] =
                    InstVerify([@ EXCEPT !.scriptText = text, !.actualHash = Sha256Hex(text),
                                         !.expectedHash = expectedHash, !.version = version],
                               execOk)]
     \/ inv' = [inv EXCEPT ![p] = InstRejected(@, "fetch failed")]
  /\ UNCHANGED << variant, retryVars, tagVars, syncVarsButInv, tomVars >>

\* The process of the action exits.
InstExit(p) ==
  /\ inv[p].pc \in InstTerminal
  /\ inv' = [inv EXCEPT ![p] = InstExited]
  /\ UNCHANGED << variant, retryVars, tagVars, syncVarsButInv, tomVars >>

InstNext == \E p \in Procs : InstFetch(p) \/ InstText(p) \/ InstExit(p)

SpecInstall == InstInit /\ [][InstNext]_vars

(***************************************************************************)
(* Properties of the install-actionlint action (checked under SpecInstall) *)
(***************************************************************************)

InstRuns == { p \in Procs : variant = InstallActionlint /\ inv[p].pc # "exited" }

\* The run of p has the downloaded text and read its inputs.
InstDownloaded(p) == inv[p].scriptText # Null

\* C33: the downloaded script is executed only if its SHA-256 equals the
\* expected-hash input (as getInput returns it), and what is executed is the
\* text that was hashed; when the two differ the run reports failure, writes
\* no file and executes nothing.
C33_ExecutesOnlyVerifiedScript ==
  \A p \in InstRuns :
    /\ inv[p].execs > 0 =>
          /\ InstDownloaded(p)
          /\ Sha256Hex(inv[p].scriptText) = GetInput(inv[p].expectedHash)
          /\ inv[p].executedText = inv[p].scriptText
          /\ inv[p].execs = 1 /\ inv[p].writes = 1
    /\ InstDownloaded(p) /\ Sha256Hex(inv[p].scriptText) # GetInput(inv[p].expectedHash) =>
          /\ inv[p].pc = "FAILED"
          /\ inv[p].dirs = 0 /\ inv[p].writes = 0 /\ inv[p].execs = 0
          /\ inv[p].executedText = Null
          /\ ~GetInputThrows(inv[p].expectedHash) /\ ~GetInputThrows(inv[p].version) =>
                inv[p].reported = 1
    /\ inv[p].writes = inv[p].execs /\ inv[p].removed = inv[p].dirs

\* Another script than the expected one was downloaded: the run failed and
\* reported it, and nothing was written or executed.
C33_Witness ==
  \E p \in InstRuns :
    /\ inv[p].scriptText = Script_pwned /\ inv[p].expectedHash = Digest_ok
    /\ inv[p].pc = "FAILED" /\ inv[p].reported = 1
    /\ inv[p].writes = 0 /\ inv[p].execs = 0

(***************************************************************************)
(* Properties of the tag listing (checked under SpecListings)              *)
(***************************************************************************)

\* The steps of run() that follow the resolver in the merge-based versions.
AfterResolver ==
  { "mjs.search", "mjs.git", "mjs.merge", "mjs.conflict", "mjs.push", "mjs.reposGet",
    "mjs.pullsCreate", "mjs.addLabels", "SKIPPED", "LABELED" }

\* The names of the first k pages of the listing, in order.
PagesUpTo(k) == Flatten(SubSeq(upstream, 1, k))

\* C35: the latest tag is selected from exactly the names of all pages of the
\* upstream listing: while the pages are read the working set holds each name
\* of the pages read so far once, also after a restart, and the tag a run
\* went on with is the latest semver tag of the whole listing.
C35_LatestOfAllPages ==
  \A p \in Procs :
    /\ variant \in Variants /\ inv[p].pc = "pageDelay" =>
          inv[p].tags = PagesUpTo(IF Len(upstream) = 0 THEN 0 ELSE inv[p].page)
    /\ variant \in Variants /\ inv[p].latestTag # Null =>
          inv[p].latestTag = LatestTagOf[Flatten(upstream)]
    /\ variant \in Variants /\ inv[p].pc = "NOTHING" =>
          LatestTagOf[Flatten(upstream)] = Null
    /\ variant = MergeSemver /\ inv[p].pc \in AfterResolver =>
          inv[p].latestTag = LatestTagOf[Flatten(upstream)]

====
